---------------------------- MODULE Spec2Model ----------------------------
(***************************************************************************)
(* EEG-controlled Tello drone: the framed sensor decoder                   *)
(* (eeg_interface.py), the signal-to-motion mapper (coordinate_mapper.py), *)
(* the actuator link (tello_controller.py) and the control loop (main.py). *)
(*                                                                         *)
(* Time is counted in hundredths of a second.  Python floats are modelled  *)
(* as exact rationals <<numerator, denominator>> in lowest terms.          *)
(***************************************************************************)
EXTENDS Integers, Sequences, FiniteSets, TLC

(***************************************************************************)
(* Bounds of the model                                                     *)
(***************************************************************************)
MaxTicks == 3
MaxDecFrames == 3
MaxMapSteps == 2
MaxExtStops == 1
MaxLongSleeps == 1
MaxEmergencyCalls == 1
MaxPolls == 2
MaxInFlight == 1
MaxBlinkCalls == 11
MaxBlinkProbes == 2
MaxReconnects == 1

(***************************************************************************)
(* config.py                                                               *)
(***************************************************************************)
MIN_BATTERY_LEVEL == 20
AUTO_TAKEOFF == FALSE
ALPHA_MIN == 0
ALPHA_MAX == 1000000
R_MIN == 0
R_MAX == 100
R_DEADZONE == 15
THETA_MIN == -180
THETA_MAX == 180
THETA_DEADZONE == 20
Z_MIN == 0
Z_MAX == 100
Z_DEADZONE == 15
SMOOTHING_FACTOR == <<7, 10>>
COMMAND_INTERVAL == 5
LOOP_DELAY == 5
MAX_POOR_SIGNAL == 50
MAX_HEIGHT == 300
CONTROL_MODE == 1
AUTO_LAND_ON_POOR_SIGNAL_TIMEOUT == 1000

(***************************************************************************)
(* eeg_interface.py: protocol constants                                    *)
(***************************************************************************)
SYNC == 170
EXCODE == 85
CODE_POOR_SIGNAL == 2
CODE_ATTENTION == 4
CODE_MEDITATION == 5
CODE_RAW_VALUE == 128
CODE_ASIC_EEG_POWER == 131
MAX_PLENGTH == 169
\* signal_quality: "0 = good, 200 = no signal"
NO_SIGNAL == 200

(***************************************************************************)
(* coordinate_mapper.py: constants set in __init__                         *)
(***************************************************************************)
blink_threshold == 300000
normal_alpha_lo == 100000
normal_alpha_hi == 200000
velocity_min == -100
velocity_max == 100
HISTORY_LEN == 10
HISTORY_MIN == 3
attention_max == 100
meditation_max == 100

(***************************************************************************)
(* tello_controller.py / main.py: retry budgets                            *)
(***************************************************************************)
HANDSHAKE_ATTEMPTS == 3
TAKEOFF_ATTEMPTS == 3
max_retries == 3
POOR_LOG_EVERY == 20

NoneVal == "None"

(***************************************************************************)
(* Exact rational arithmetic standing for Python float arithmetic.         *)
(* Operands are bound once, { e : p \in {pp} }, before they are used:      *)
(* TLC passes operator arguments by name.                                  *)
(***************************************************************************)
Only(S) == CHOOSE x \in S : TRUE

Abs(x) == IF x < 0 THEN -x ELSE x

RECURSIVE GCD(_, _)
GCD(aa, bb) == Only({ IF b = 0 THEN a ELSE GCD(b, a % b) : a \in {aa}, b \in {bb} })

Rat(nn, dd) ==
    Only({ Only({ IF g = 0 THEN <<0, 1>> ELSE <<n \div g, d \div g>> :
                  g \in {GCD(Abs(n), d)} }) : n \in {nn}, d \in {dd} })

RInt(i) == <<i, 1>>
RAdd(pp, qq) ==
    Only({ Rat(p[1] * q[2] + q[1] * p[2], p[2] * q[2]) : p \in {pp}, q \in {qq} })
RSub(pp, qq) ==
    Only({ Rat(p[1] * q[2] - q[1] * p[2], p[2] * q[2]) : p \in {pp}, q \in {qq} })
RMul(pp, qq) ==
    Only({ Only({ Rat(a[1] * b[1], a[2] * b[2]) :
                  a \in {Rat(p[1], q[2])}, b \in {Rat(q[1], p[2])} }) :
           p \in {pp}, q \in {qq} })
RDiv(pp, qq) ==
    Only({ IF q[1] > 0 THEN RMul(p, <<q[2], q[1]>>) ELSE RMul(p, <<-q[2], -q[1]>>) :
           p \in {pp}, q \in {qq} })
RLt(pp, qq) == \E p \in {pp}, q \in {qq} : p[1] * q[2] < q[1] * p[2]
RLe(pp, qq) == \E p \in {pp}, q \in {qq} : p[1] * q[2] <= q[1] * p[2]
RAbs(pp) == Only({ <<Abs(p[1]), p[2]>> : p \in {pp} })
RMin(pp, qq) == Only({ IF RLt(q, p) THEN q ELSE p : p \in {pp}, q \in {qq} })
RMax(pp, qq) == Only({ IF RLt(p, q) THEN q ELSE p : p \in {pp}, q \in {qq} })
\* int(x): truncation toward zero
Trunc(pp) ==
    Only({ IF p[1] >= 0 THEN p[1] \div p[2] ELSE -((-p[1]) \div p[2]) : p \in {pp} })

IMin(aa, bb) == Only({ IF b < a THEN b ELSE a : a \in {aa}, b \in {bb} })
IMax(aa, bb) == Only({ IF a < b THEN b ELSE a : a \in {aa}, b \in {bb} })

(***************************************************************************)
(* coordinate_mapper.py: CylindricalCoordinateMapper                       *)
(***************************************************************************)
normalize(value, min_val, max_val) ==
    IF max_val = min_val
    THEN <<1, 2>>
    ELSE RMax(RInt(0),
              RMin(RInt(1), RDiv(RSub(value, RInt(min_val)), RInt(max_val - min_val))))

map_to_range(normalized_value, out_min, out_max) ==
    RAdd(RInt(out_min), RMul(normalized_value, RInt(out_max - out_min)))

smooth_value(new_value, smoothed_value) ==
    RAdd(RMul(SMOOTHING_FACTOR, smoothed_value),
         RMul(RSub(RInt(1), SMOOTHING_FACTOR), RInt(new_value)))

\* Mutant: the edge of the deadzone belongs to it
apply_deadzone_inclusive(vv, cc, deadzone) ==
    Only({ IF RLe(RAbs(RSub(value, center)), RInt(deadzone)) THEN center ELSE value :
           value \in {vv}, center \in {cc} })

apply_deadzone(vv, cc, deadzone) ==
    Only({ IF RLt(RAbs(RSub(value, center)), RInt(deadzone)) THEN center ELSE value :
           value \in {vv}, center \in {cc} })

\* alpha_history after the append and the pop(0) of detect_blinking
push_history(history, alpha_power) ==
    Only({ IF Len(h) > HISTORY_LEN THEN Tail(h) ELSE h : h \in {Append(history, alpha_power)} })

detect_blinking(history, alpha_power) ==
    IF Len(push_history(history, alpha_power)) < HISTORY_MIN THEN "normal"
    ELSE IF alpha_power > blink_threshold THEN "blink"
    ELSE IF normal_alpha_lo <= alpha_power /\ alpha_power <= normal_alpha_hi THEN "normal"
    ELSE IF alpha_power < normal_alpha_lo THEN "low"
    ELSE "normal"

map_alpha_to_forward_backward(history, alpha_power) ==
    Only({ IF blink_state = "blink" THEN <<1, 1>>
           ELSE IF blink_state = "low" THEN <<-1, 1>>
           ELSE <<-1, 5>> :
           blink_state \in {detect_blinking(history, alpha_power)} })

\* The mapper object after __init__ with a config that holds the given
\* deadzones: its smoothing state, its blink history, its deadzones
MapperOf(r_deadzone, theta_deadzone, z_deadzone) ==
    [alpha_smoothed |-> <<0, 1>>, attention_smoothed |-> <<0, 1>>,
     meditation_smoothed |-> <<0, 1>>, alpha_history |-> <<>>,
     r_deadzone |-> r_deadzone, theta_deadzone |-> theta_deadzone,
     z_deadzone |-> z_deadzone]

\* The mapper object made from config.py
MapperInit == MapperOf(R_DEADZONE, THETA_DEADZONE, Z_DEADZONE)

\* The deadzone stage of map_alpha_to_coordinates
deadzoned(m, r, theta, z) ==
    [r |-> apply_deadzone(r, Rat(R_MIN + R_MAX, 2), m.r_deadzone),
     theta |-> apply_deadzone(theta, RInt(0), m.theta_deadzone),
     z |-> apply_deadzone(z, Rat(Z_MIN + Z_MAX, 2), m.z_deadzone)]

\* The mode switch of map_alpha_to_coordinates, from the smoothed inputs
coordinates_by_mode(mode, m, alpha_power, a_s, t_s, m_s) ==
    Only({ deadzoned(m,
             IF mode = 1
             THEN map_to_range(map_alpha_to_forward_backward(m.alpha_history, alpha_power),
                               R_MIN, R_MAX)
             ELSE IF mode = 2 THEN map_to_range(attention_norm, R_MIN, R_MAX)
             ELSE map_to_range(alpha_norm, R_MIN, R_MAX),
             IF mode = 2 THEN map_to_range(meditation_norm, THETA_MIN, THETA_MAX)
             ELSE map_to_range(attention_norm, THETA_MIN, THETA_MAX),
             IF mode = 2 THEN map_to_range(alpha_norm, Z_MIN, Z_MAX)
             ELSE map_to_range(meditation_norm, Z_MIN, Z_MAX)) :
           alpha_norm \in {normalize(a_s, ALPHA_MIN, ALPHA_MAX)},
           attention_norm \in {normalize(t_s, 0, attention_max)},
           meditation_norm \in {normalize(m_s, 0, meditation_max)} })

\* map_alpha_to_coordinates: the new mapper state and the returned (r, theta, z)
map_alpha_to_coordinates(mode, mm, alpha_power, attention, meditation) ==
    Only({ Only({ [mapper |-> [m EXCEPT
                                 !.alpha_smoothed = a_s, !.attention_smoothed = t_s,
                                 !.meditation_smoothed = m_s,
                                 !.alpha_history = IF mode = 1
                                                   THEN push_history(m.alpha_history, alpha_power)
                                                   ELSE m.alpha_history],
                   cyl |-> coordinates_by_mode(mode, m, alpha_power, a_s, t_s, m_s)] :
                  a_s \in {smooth_value(alpha_power, m.alpha_smoothed)},
                  t_s \in {smooth_value(attention, m.attention_smoothed)},
                  m_s \in {smooth_value(meditation, m.meditation_smoothed)} }) :
           m \in {mm} })

\* Mutant: the projection returns the truncated value unclamped
clamp_velocity_off(v) == v

\* max(velocity_min, min(velocity_max, v)) of cylindrical_to_velocity
clamp_velocity(v) == IMax(velocity_min, IMin(velocity_max, v))

cylindrical_to_velocity(rr, tt, zz) ==
    Only({ Only({ Only({ <<clamp_velocity(Trunc(RMul(tn100, <<4, 5>>))),
                           clamp_velocity(Trunc(RMul(r_normalized, RInt(velocity_max)))),
                           clamp_velocity(Trunc(RMul(z_normalized, RInt(velocity_max)))),
                           clamp_velocity(Trunc(tn100))>> :
                         r_normalized \in {RDiv(RSub(r, r_center), RSub(RInt(R_MAX), r_center))},
                         z_normalized \in {RDiv(RSub(z, z_center), RSub(RInt(Z_MAX), z_center))},
                         tn100 \in {RMul(RDiv(theta, RInt(THETA_MAX)), RInt(velocity_max))} }) :
                  r_center \in {Rat(R_MIN + R_MAX, 2)}, z_center \in {Rat(Z_MIN + Z_MAX, 2)} }) :
           r \in {rr}, theta \in {tt}, z \in {zz} })

\* main.py: "Validate command values" before dispatch
validate_command(vv) ==
    Only({ <<IMax(-100, IMin(100, v[1])), IMax(-100, IMin(100, v[2])),
             IMax(-100, IMin(100, v[3])), IMax(-100, IMin(100, v[4]))>> : v \in {vv} })

\* tello_controller.py send_rc_control: the four numbers of the "rc" datagram
rc_clamp(v) == IMax(-100, IMin(100, v))
rc_arguments(left_right, forward_backward, up_down, yaw) ==
    <<rc_clamp(left_right), rc_clamp(forward_backward), rc_clamp(up_down), rc_clamp(yaw)>>

(***************************************************************************)
(* eeg_interface.py: MindWaveInterface                                     *)
(***************************************************************************)
latest_data_init ==
    [signal_quality |-> 200, attention |-> 0, meditation |-> 0, delta |-> 0,
     theta |-> 0, low_alpha |-> 0, high_alpha |-> 0, alpha |-> 0, low_beta |-> 0,
     high_beta |-> 0, low_gamma |-> 0, mid_gamma |-> 0, raw_value |-> 0]

RECURSIVE SumSeq(_)
SumSeq(s) == IF s = <<>> THEN 0 ELSE Head(s) + SumSeq(Tail(s))

\* (~(sum(payload) & 0xFF)) & 0xFF
checksum_of(payload) == 255 - (SumSeq(payload) % 256)

Drop(s, n) == SubSeq(s, n + 1, Len(s))

\* _read_packet: "Wait for sync bytes (0xAA 0xAA)"; an empty read returns None
RECURSIVE wait_for_sync(_)
wait_for_sync(b) ==
    IF b = <<>> THEN [found |-> FALSE, rest |-> <<>>]
    ELSE IF Head(b) = SYNC
         THEN IF Len(b) = 1 THEN [found |-> FALSE, rest |-> <<>>]
              ELSE IF b[2] = SYNC THEN [found |-> TRUE, rest |-> Drop(b, 2)]
              ELSE wait_for_sync(Drop(b, 2))
         ELSE wait_for_sync(Tail(b))

\* Mutant: the checksum is read and never compared
checksum_ok_unchecked(payload, checksum) == TRUE

\* The checksum test of _read_packet
checksum_ok(payload, checksum) == checksum_of(payload) = checksum

\* _read_packet on the bytes waiting in the serial channel: the bytes left, the
\* payload returned (<<>> with how # "ok" stands for None) and the return path
read_packet(b) ==
    LET s == wait_for_sync(b)
    IN  IF ~s.found THEN [rest |-> s.rest, payload |-> <<>>, how |-> "timeout"]
        ELSE IF s.rest = <<>> THEN [rest |-> <<>>, payload |-> <<>>, how |-> "timeout"]
        ELSE LET plength == Head(s.rest)
                 after == Tail(s.rest)
             IN  IF plength > MAX_PLENGTH
                 THEN [rest |-> after, payload |-> <<>>, how |-> "length"]
                 ELSE IF Len(after) < plength
                 THEN [rest |-> <<>>, payload |-> <<>>, how |-> "short"]
                 ELSE IF Len(after) < plength + 1
                 THEN [rest |-> <<>>, payload |-> <<>>, how |-> "timeout"]
                 ELSE LET payload == SubSeq(after, 1, plength)
                          checksum == after[plength + 1]
                      IN  IF checksum_ok(payload, checksum)
                          THEN [rest |-> Drop(after, plength + 1),
                                payload |-> payload, how |-> "ok"]
                          ELSE [rest |-> Drop(after, plength + 1),
                                payload |-> <<>>, how |-> "checksum"]

\* struct.unpack('>h', ...): big-endian signed 16-bit
unpack_h(hi, lo) == LET u == hi * 256 + lo IN IF u >= 32768 THEN u - 65536 ELSE u

\* Mutant: the three bytes of a band are taken low byte first
band_value_little_endian(payload, offset) ==
    payload[offset] + payload[offset + 1] * 256 + payload[offset + 2] * 65536

\* (payload[offset] << 16) | (payload[offset+1] << 8) | payload[offset+2]
band_value(payload, offset) ==
    payload[offset] * 65536 + payload[offset + 1] * 256 + payload[offset + 2]

\* "Skip extended code bytes": the index of the first byte from i that is not
\* EXCODE, or Len(payload) + 1 when the payload ends first (an IndexError)
RECURSIVE skip_excode(_, _)
skip_excode(payload, i) ==
    IF i > Len(payload) THEN i
    ELSE IF payload[i] = EXCODE THEN skip_excode(payload, i + 1)
    ELSE i

\* Mutant: a store of one field replaces the whole sample dict
store_field_fresh(data, field, value) == [latest_data_init EXCEPT ![field] = value]

\* "with self.data_lock: self.latest_data[field] = value"
store_field(data, field, value) == [data EXCEPT ![field] = value]

\* One iteration of the while loop of _parse_packet, from (1-based) index i:
\* the next index, the sample store after it, and whether IndexError was raised
parse_entry(payload, i, data) ==
    LET c == skip_excode(payload, i)
        n == Len(payload)
    IN  IF c > n THEN [i |-> c, data |-> data, raised |-> TRUE]
        ELSE LET code == payload[c]
                 j == c + 1
             IN  IF code \in {CODE_POOR_SIGNAL, CODE_ATTENTION, CODE_MEDITATION}
                 THEN IF j > n THEN [i |-> j, data |-> data, raised |-> TRUE]
                      ELSE [i |-> j + 1, raised |-> FALSE,
                            data |-> IF code = CODE_POOR_SIGNAL
                                     THEN store_field(data, "signal_quality", payload[j])
                                     ELSE IF code = CODE_ATTENTION
                                     THEN store_field(data, "attention", payload[j])
                                     ELSE store_field(data, "meditation", payload[j])]
                 ELSE IF code = CODE_RAW_VALUE
                 THEN [i |-> j + 2, raised |-> FALSE,
                       data |-> IF j + 1 <= n
                                THEN store_field(data, "raw_value",
                                                 unpack_h(payload[j], payload[j + 1]))
                                ELSE data]
                 ELSE IF code = CODE_ASIC_EEG_POWER
                 THEN [i |-> j + 24, raised |-> FALSE,
                       data |-> IF j + 23 <= n
                                THEN [data EXCEPT
                                        !.delta = band_value(payload, j),
                                        !.theta = band_value(payload, j + 3),
                                        !.low_alpha = band_value(payload, j + 6),
                                        !.high_alpha = band_value(payload, j + 9),
                                        !.alpha = (band_value(payload, j + 6)
                                                   + band_value(payload, j + 9)) \div 2,
                                        !.low_beta = band_value(payload, j + 12),
                                        !.high_beta = band_value(payload, j + 15),
                                        !.low_gamma = band_value(payload, j + 18),
                                        !.mid_gamma = band_value(payload, j + 21)]
                                ELSE data]
                 ELSE IF code >= 128
                 THEN [i |-> IF j <= n THEN j + 1 + payload[j] ELSE j,
                       data |-> data, raised |-> FALSE]
                 ELSE [i |-> j + 1, data |-> data, raised |-> FALSE]

\* Mutant: the threshold itself counts as good
is_signal_good_inclusive(data) == data.signal_quality <= 50

\* is_signal_good
is_signal_good(data) == data.signal_quality < 50

(***************************************************************************)
(* The headset: frames of the ThinkGear protocol put on the serial channel *)
(***************************************************************************)
Frame(payload) == <<SYNC, SYNC, Len(payload)>> \o payload \o <<checksum_of(payload)>>
CorruptFrame(payload) ==
    <<SYNC, SYNC, Len(payload)>> \o payload \o <<(checksum_of(payload) + 1) % 256>>


(***************************************************************************)
(* State                                                                   *)
(***************************************************************************)
VARIABLES
    \* the Config object handed to EEGDroneController: LOOP_DELAY, CONTROL_MODE
    \* and AUTO_TAKEOFF
    loop_delay, control_mode, auto_takeoff,
    \* EEGDroneController and the thread running start()
    pcMain, is_running, shutdown_event, eeg, drone, attempt, to_attempt,
    now, last_command_time, control_loop_count,
    \* threads running stop(): the start() thread itself and an outside caller
    stopPc,
    \* MindWaveInterface and its read thread
    eeg_is_connected, is_reading, serial_open, latest_data, buf, decPc, pkt, pidx,
    \* MindWaveInterface: the lock of the sample store
    data_lock,
    \* CylindricalCoordinateMapper
    mapper,
    \* TelloController and its listener threads
    sock, is_connected, response, abort, state_running, listeners, state_listeners,
    hs_attempt,
    \* TelloController: the state socket, the telemetry dict, the response lock
    state_sock, state_data, response_lock,
    \* a thread calling drone.emergency(), and the mappings that callers of
    \* read_data() and get_state() hold
    emgPc, held,
    \* the send_command call in progress in a thread that calls connect() and
    \* takeoff() on a controller
    call,
    \* reply datagrams on their way from the drone
    inflight,
    \* what an observer of the wire and of the return values has seen
    obs

cfgVars == <<loop_delay, control_mode, auto_takeoff>>
mainVars == <<pcMain, is_running, shutdown_event, eeg, drone, attempt, to_attempt,
              now, last_command_time, control_loop_count>>
eegVars == <<eeg_is_connected, is_reading, serial_open, latest_data, buf, decPc, pkt, pidx>>
linkVars == <<sock, is_connected, response, abort, state_running, listeners,
              state_listeners, hs_attempt>>
telVars == <<state_sock, state_data, response_lock, data_lock>>
callerVars == <<emgPc, held, call>>
vars == <<cfgVars, mainVars, stopPc, eegVars, mapper, linkVars, inflight, obs,
          telVars, callerVars>>

Threads == {"main", "ext"}

NoRecord == <<>>

ObsInit ==
    [frames |-> 0, valid |-> <<>>, discards |-> 0, lastRead |-> "none", decRaised |-> FALSE,
     mapSteps |-> 0, lastCyl |-> <<>>, lastVel |-> <<>>, lastRc |-> <<>>, lastFrom |-> "none",
     lastIn |-> <<>>, dz |-> NoRecord, stage |-> NoRecord, lastBlink |-> "none",
     blink |-> NoRecord, blinkCalls |-> 0, blinkProbes |-> 0,
     battery |-> -1, batteryReply |-> "none", reconnects |-> 0, extraSyncs |-> 0,
     good |-> NoRecord, bands |-> <<>>,
     ticks |-> 0, longSleeps |-> 0, extStops |-> 0,
     hsSent |-> 0, okReturned |-> FALSE,
     failedCalls |-> 0, connectRet |-> "none",
     rcCount |-> 0, rcPrev |-> -1, rcLast |-> -1,
     tickLast |-> NoRecord, cmdPrev |-> NoRecord, cmdLast |-> NoRecord,
     takeoffSent |-> FALSE, landSent |-> FALSE, emergencySent |-> FALSE,
     stopInvoked |-> FALSE, rcAfterStop |-> FALSE, poorStart |-> -1,
     stopFrom |-> "none", stopsDone |-> 0, repeated |-> FALSE, landRaised |-> FALSE,
     disconnects |-> 0, disconnectRaised |-> FALSE, emergencyMissed |-> FALSE,
     sensorOpenFailed |-> FALSE, faultTick |-> 0, rcUnsafe |-> FALSE,
     emgCalls |-> 0, emgPolls |-> 0, emgResult |-> "none", staleRead |-> FALSE,
     storedSince |-> FALSE, responseTo |-> "none",
     toSent |-> 0, wakeSent |-> 0, takeoffRet |-> "none", sentAfterReturn |-> FALSE]

\* No send_command call in progress
NoCall ==
    [command |-> "none", pc |-> "none", polls |-> 0, ret |-> NoneVal,
     answers |-> "none", fresh |-> FALSE]

\* TelloController.__init__: no state socket, an empty telemetry dict, the
\* response lock free; MindWaveInterface.__init__: the data lock free; no emergency() call, no mapping handed out
LinkExtraInit ==
    /\ state_sock = "none"
    /\ state_data = <<>>
    /\ response_lock = NoneVal
    /\ data_lock = NoneVal
    /\ emgPc = "idle"
    /\ held = [eeg |-> NoRecord, tel |-> NoRecord]
    /\ call = NoCall

\* The state after EEGDroneController(config): nothing created yet
BaseInit ==
    /\ LinkExtraInit
    /\ control_mode = CONTROL_MODE
    /\ pcMain = "start" /\ is_running = FALSE /\ shutdown_event = FALSE
    /\ eeg = NoneVal /\ drone = NoneVal /\ attempt = 0 /\ to_attempt = 0
    /\ now = 0 /\ last_command_time = 0 /\ control_loop_count = 0
    /\ stopPc = [t \in Threads |-> "idle"]
    /\ eeg_is_connected = FALSE /\ is_reading = FALSE /\ serial_open = FALSE
    /\ latest_data = latest_data_init /\ buf = <<>> /\ decPc = "off"
    /\ pkt = <<>> /\ pidx = 1
    /\ mapper = MapperInit
    /\ sock = "closed" /\ is_connected = FALSE /\ response = NoneVal
    /\ abort = FALSE /\ state_running = FALSE /\ listeners = 0
    /\ state_listeners = 0 /\ hs_attempt = 0
    /\ inflight = <<>>
    /\ obs = ObsInit

(***************************************************************************)
(* The headset and the read thread of MindWaveInterface                    *)
(***************************************************************************)
\* The headset puts one whole frame on the open serial channel: the payload p,
\* with a checksum byte that is right or (bad) wrong
HeadsetSend(payloads, kinds, max) ==
    /\ serial_open
    /\ obs.frames < max
    /\ \E p \in payloads, bad \in kinds :
          /\ buf' = buf \o (IF bad THEN CorruptFrame(p) ELSE Frame(p))
          /\ obs' = [obs EXCEPT !.frames = @ + 1,
                                !.valid = IF bad THEN @ ELSE Append(@, p)]
    /\ UNCHANGED <<cfgVars, mainVars, stopPc, eeg_is_connected, is_reading, serial_open,
                   latest_data, decPc, pkt, pidx, mapper, linkVars, inflight,
                   telVars, callerVars>>

\* _read_loop: the while test, then one call of _read_packet
DecRead ==
    /\ decPc = "read"
    /\ IF ~(is_reading /\ eeg_is_connected)
       THEN /\ decPc' = "dead"
            /\ UNCHANGED <<buf, pkt, pidx, obs>>
       ELSE IF ~serial_open
       THEN /\ obs.lastRead # "closed"
            /\ obs' = [obs EXCEPT !.lastRead = "closed"]
            /\ UNCHANGED <<buf, pkt, pidx, decPc>>
       ELSE LET res == read_packet(buf)
            IN  /\ (buf = <<>> => obs.lastRead # "timeout")
                /\ buf' = res.rest
                /\ obs' = [obs EXCEPT !.lastRead = res.how,
                                      !.discards = IF res.how = "checksum" THEN @ + 1 ELSE @]
                /\ IF res.payload # <<>>
                   THEN pkt' = res.payload /\ pidx' = 1 /\ decPc' = "parse"
                   ELSE UNCHANGED <<pkt, pidx, decPc>>
    /\ UNCHANGED <<cfgVars, mainVars, stopPc, eeg_is_connected, is_reading, serial_open,
                   latest_data, mapper, linkVars, inflight,
                   telVars, callerVars>>

\* _parse_packet: one entry of the payload, written under data_lock; an
\* IndexError ends the packet in the except clause of _read_loop
DecParse ==
    /\ decPc = "parse"
    /\ LET res == parse_entry(pkt, pidx, latest_data)
       IN  /\ latest_data' = res.data
           /\ IF res.raised \/ res.i > Len(pkt)
              THEN pkt' = <<>> /\ pidx' = 1 /\ decPc' = "read"
              ELSE pkt' = pkt /\ pidx' = res.i /\ decPc' = "parse"
           /\ obs' = [obs EXCEPT !.decRaised = res.raised]
    /\ UNCHANGED <<cfgVars, mainVars, stopPc, eeg_is_connected, is_reading, serial_open,
                   buf, mapper, linkVars, inflight,
                   telVars, callerVars>>

(***************************************************************************)
(* The decoder alone: a connected MindWaveInterface fed by the headset     *)
(***************************************************************************)
PayloadBands ==
    <<CODE_ASIC_EEG_POWER, 0, 0, 1, 0, 0, 2, 1, 0, 0, 2, 0, 1,
      0, 0, 5, 0, 0, 6, 0, 0, 7, 255, 255, 255>>
DecPayloads ==
    { <<CODE_POOR_SIGNAL, 0>>,
      <<CODE_POOR_SIGNAL, 200, CODE_ATTENTION, 50>>,
      <<EXCODE, CODE_ATTENTION, 80, CODE_MEDITATION, 40, CODE_RAW_VALUE, 255, 254>>,
      PayloadBands }

InitDecoder ==
    /\ loop_delay = LOOP_DELAY /\ auto_takeoff = AUTO_TAKEOFF
    /\ LinkExtraInit
    /\ control_mode = CONTROL_MODE
    /\ pcMain = "start" /\ is_running = FALSE /\ shutdown_event = FALSE
    /\ eeg = "obj" /\ drone = NoneVal /\ attempt = 0 /\ to_attempt = 0
    /\ now = 0 /\ last_command_time = 0 /\ control_loop_count = 0
    /\ stopPc = [t \in Threads |-> "idle"]
    /\ eeg_is_connected = TRUE /\ is_reading = TRUE /\ serial_open = TRUE
    /\ latest_data = latest_data_init /\ buf = <<>> /\ decPc = "read"
    /\ pkt = <<>> /\ pidx = 1
    /\ mapper = MapperInit
    /\ sock = "closed" /\ is_connected = FALSE /\ response = NoneVal
    /\ abort = FALSE /\ state_running = FALSE /\ listeners = 0
    /\ state_listeners = 0 /\ hs_attempt = 0
    /\ inflight = <<>>
    /\ obs = ObsInit

DecHeadset == HeadsetSend(DecPayloads, BOOLEAN, MaxDecFrames)

NextDecoder == DecHeadset \/ DecRead \/ DecParse

SpecDecoder == InitDecoder /\ [][NextDecoder]_vars


(***************************************************************************)
(* C6: a frame whose checksum byte is not the 8-bit complement of the      *)
(* payload byte sum is discarded: the read that meets it consumes exactly  *)
(* that frame, changes no field of the sample store, hands nothing to the  *)
(* parser and raises nothing; and once the stream is consumed the store    *)
(* holds what the valid frames alone decode to, in their order.            *)
(***************************************************************************)
BadFrameAtHead(b) ==
    /\ Len(b) >= 4 /\ b[1] = SYNC /\ b[2] = SYNC /\ b[3] <= MAX_PLENGTH
    /\ Len(b) >= b[3] + 4
    /\ b[b[3] + 4] # 255 - (SumSeq(SubSeq(b, 4, b[3] + 3)) % 256)

RECURSIVE ParsePayload(_, _, _)
ParsePayload(payload, i, data) ==
    IF i > Len(payload) THEN data
    ELSE LET res == parse_entry(payload, i, data)
         IN  IF res.raised THEN res.data ELSE ParsePayload(payload, res.i, res.data)

RECURSIVE ParseAll(_, _)
ParseAll(payloads, data) ==
    IF payloads = <<>> THEN data
    ELSE ParseAll(Tail(payloads), ParsePayload(Head(payloads), 1, data))

C6_DiscardStep ==
    (/\ decPc = "read" /\ is_reading /\ eeg_is_connected /\ serial_open
     /\ BadFrameAtHead(buf)
     /\ Len(buf') < Len(buf))
    => (/\ latest_data' = latest_data
        /\ decPc' = "read" /\ pkt' = <<>>
        /\ buf' = Drop(buf, buf[3] + 4)
        /\ obs'.lastRead = "checksum"
        /\ ~obs'.decRaised)

C6_Resynchronized ==
    (decPc = "read" /\ buf = <<>>) => latest_data = ParseAll(obs.valid, latest_data_init)

C6_ChecksumDiscard == [][C6_DiscardStep]_vars /\ []C6_Resynchronized

C6_Witness ==
    /\ obs.discards > 0 /\ obs.lastRead = "ok"
    /\ decPc = "read" /\ buf = <<>>
    /\ latest_data # latest_data_init


(***************************************************************************)
(* The decoder fed with checksum-valid frames whose payload ends early     *)
(***************************************************************************)
\* Payloads whose last entry is cut: after a code byte, inside the two bytes
\* of a raw value, inside the 24 bytes of the band powers, after the code of
\* an unknown multi-byte entry, and on an extension marker; and a whole one
TruncPayloads ==
    { <<CODE_ATTENTION, 50, CODE_POOR_SIGNAL>>,
      <<CODE_ATTENTION, 60, CODE_RAW_VALUE, 255>>,
      <<CODE_MEDITATION, 40, CODE_ASIC_EEG_POWER, 0, 0, 1>>,
      <<CODE_POOR_SIGNAL, 0, 129>>,
      <<CODE_MEDITATION, 70, EXCODE>>,
      <<CODE_POOR_SIGNAL, 200, CODE_ATTENTION, 50>> }

TruncHeadset == HeadsetSend(TruncPayloads, {FALSE}, MaxDecFrames)

NextTruncated == TruncHeadset \/ DecRead \/ DecParse

SpecTruncated == InitDecoder /\ [][NextTruncated]_vars

(***************************************************************************)
(* C17: _parse_packet raises no exception on a checksum-valid payload      *)
(* whose last entry is truncated: no parse of such a frame ends in an      *)
(* IndexError.                                                             *)
(***************************************************************************)
C17_TruncatedNoRaise == ~obs.decRaised


(***************************************************************************)
(* The mapper alone: calls on one CylindricalCoordinateMapper              *)
(***************************************************************************)
\* What one tick of the control loop computes from a sample snapshot
tick_compute(mode, m, data) ==
    Only({ Only({ [mapper |-> res.mapper, cyl |-> res.cyl, vel |-> vel,
                   cmd |-> validate_command(vel)] :
                  vel \in {cylindrical_to_velocity(res.cyl.r, res.cyl.theta, res.cyl.z)} }) :
           res \in {map_alpha_to_coordinates(mode, m, data.alpha, data.attention,
                                             data.meditation)} })

MapInputs ==
    { <<50000, 0, 0>>, <<150000, 50, 50>>, <<400000, 100, 100>>, <<1000000, 80, 20>> }
ProbeR == { RInt(-100), RInt(50), RInt(250) }
ProbeTheta == { RInt(-400), RInt(0), <<359, 2>> }
ProbeZ == { RInt(-20), <<101, 2>>, RInt(100) }
ProbeRc == { -300, 0, 101 }

\* A mapper object, one of mappers, in each control mode; nothing else exists
InitMapperWith(mappers) ==
    /\ loop_delay = LOOP_DELAY /\ auto_takeoff = AUTO_TAKEOFF
    /\ LinkExtraInit
    /\ control_mode \in {1, 2, 3}
    /\ pcMain = "start" /\ is_running = FALSE /\ shutdown_event = FALSE
    /\ eeg = NoneVal /\ drone = NoneVal /\ attempt = 0 /\ to_attempt = 0
    /\ now = 0 /\ last_command_time = 0 /\ control_loop_count = 0
    /\ stopPc = [t \in Threads |-> "idle"]
    /\ eeg_is_connected = FALSE /\ is_reading = FALSE /\ serial_open = FALSE
    /\ latest_data = latest_data_init /\ buf = <<>> /\ decPc = "off"
    /\ pkt = <<>> /\ pidx = 1
    /\ mapper \in mappers
    /\ sock = "closed" /\ is_connected = FALSE /\ response = NoneVal
    /\ abort = FALSE /\ state_running = FALSE /\ listeners = 0
    /\ state_listeners = 0 /\ hs_attempt = 0
    /\ inflight = <<>>
    /\ obs = ObsInit

InitMapper == InitMapperWith({MapperInit})

sysVarsButMapper == <<cfgVars, mainVars, stopPc, eegVars, linkVars, inflight,
                      telVars, callerVars>>

\* map_alpha_to_coordinates, cylindrical_to_velocity and the rc arguments, as a
\* tick chains them
MapStepWith(inputs) ==
    /\ obs.mapSteps < MaxMapSteps
    /\ \E x \in inputs :
          \E res \in {tick_compute(control_mode, mapper,
                                   [alpha |-> x[1], attention |-> x[2], meditation |-> x[3]])} :
              /\ mapper' = res.mapper
              /\ obs' = [obs EXCEPT !.mapSteps = @ + 1, !.lastIn = x, !.lastCyl = res.cyl,
                                    !.lastBlink = IF control_mode = 1
                                                  THEN detect_blinking(mapper.alpha_history, x[1])
                                                  ELSE "none",
                                    !.lastVel = res.vel, !.lastFrom = "map",
                                    !.lastRc = rc_arguments(res.cmd[1], res.cmd[2],
                                                            res.cmd[3], res.cmd[4])]
    /\ UNCHANGED sysVarsButMapper

MapStep == MapStepWith(MapInputs)

\* cylindrical_to_velocity called on any (r, theta, z)
VelocityProbe ==
    /\ obs.mapSteps < MaxMapSteps
    /\ \E r \in ProbeR, theta \in ProbeTheta, z \in ProbeZ :
          obs' = [obs EXCEPT !.mapSteps = @ + 1, !.lastFrom = "probe",
                             !.lastCyl = [r |-> r, theta |-> theta, z |-> z],
                             !.lastVel = cylindrical_to_velocity(r, theta, z)]
    /\ UNCHANGED <<sysVarsButMapper, mapper>>

\* send_rc_control called with any four integers: the arguments it formats
RcProbe ==
    /\ obs.mapSteps < MaxMapSteps
    /\ \E a \in ProbeRc, b \in ProbeRc :
          obs' = [obs EXCEPT !.mapSteps = @ + 1, !.lastRc = rc_arguments(a, b, -a, -b)]
    /\ UNCHANGED <<sysVarsButMapper, mapper>>

NextMapper == MapStep \/ VelocityProbe \/ RcProbe

SpecMapper == InitMapper /\ [][NextMapper]_vars

(***************************************************************************)
(* C7: every velocity command returned by cylindrical_to_velocity and      *)
(* every argument list of a transmitted "rc" command has four components,  *)
(* each an integer within [-100, 100].                                     *)
(***************************************************************************)
IsVelocityCommand(v) ==
    /\ Len(v) = 4
    /\ \A i \in 1..4 : v[i] \in Int /\ -100 <= v[i] /\ v[i] <= 100

C7_VelocityBounded ==
    /\ obs.lastVel # <<>> => IsVelocityCommand(obs.lastVel)
    /\ obs.lastRc # <<>> => IsVelocityCommand(obs.lastRc)

\* A projection that saturates: r far below the range gives vy = -100
C7_Witness ==
    /\ obs.lastVel # <<>> /\ obs.lastRc # <<>>
    /\ obs.lastVel[2] = -100 /\ obs.lastCyl.r = RInt(-100)
    /\ obs.lastRc[1] \in {-100, 100}

(***************************************************************************)
(* C8: every (r, theta, z) returned by map_alpha_to_coordinates satisfies  *)
(* R_MIN <= r <= R_MAX, THETA_MIN <= theta <= THETA_MAX, Z_MIN <= z <=     *)
(* Z_MAX, in every control mode.                                           *)
(***************************************************************************)
InRange(x, lo, hi) == RLe(RInt(lo), x) /\ RLe(x, RInt(hi))

C8_CylindricalInRange ==
    obs.lastFrom = "map"
    => (/\ InRange(obs.lastCyl.r, R_MIN, R_MAX)
        /\ InRange(obs.lastCyl.theta, THETA_MIN, THETA_MAX)
        /\ InRange(obs.lastCyl.z, Z_MIN, Z_MAX))

(***************************************************************************)
(* The mapper alone, made from config.py or from a config with zero        *)
(* deadzones: whole mappings, and calls of apply_deadzone                  *)
(***************************************************************************)
EndToEndInputs == { <<500000, 50, 50>>, <<150000, 50, 50>>, <<500000, 100, 0>> }

\* Offsets from the center, in halves, around the edge of a deadzone
EdgeOffsets(deadzone) ==
    { 0, 2 * deadzone - 1, 2 * deadzone, 2 * deadzone + 1,
      1 - 2 * deadzone, -(2 * deadzone), -(2 * deadzone) - 1 }

ProbeCenters == { 0, 50 }
ProbeDeadzones == { 0, R_DEADZONE, THETA_DEADZONE }

MapEndToEnd == MapStepWith(EndToEndInputs)

\* apply_deadzone called with a value at, inside or outside the edge
DeadzoneProbe ==
    /\ obs.mapSteps < MaxMapSteps
    /\ \E center \in ProbeCenters, deadzone \in ProbeDeadzones :
       \E k \in EdgeOffsets(deadzone) :
       \E value \in {RAdd(RInt(center), Rat(k, 2))} :
          obs' = [obs EXCEPT !.mapSteps = @ + 1, !.lastFrom = "deadzone",
                             !.dz = [k |-> k, value |-> value, center |-> RInt(center),
                                     deadzone |-> deadzone,
                                     out |-> apply_deadzone(value, RInt(center), deadzone)]]
    /\ UNCHANGED <<sysVarsButMapper, mapper>>

\* The deadzone stage of map_alpha_to_coordinates on an (r, theta, z) that is
\* k halves away from (midpoint of r, 0, midpoint of z)
StageProbe ==
    /\ obs.mapSteps < MaxMapSteps
    /\ \E deadzone \in ProbeDeadzones :
       \E k \in EdgeOffsets(deadzone) :
       \E r \in {RAdd(Rat(R_MIN + R_MAX, 2), Rat(k, 2))} :
       \E theta \in {Rat(k, 2)} :
       \E z \in {RAdd(Rat(Z_MIN + Z_MAX, 2), Rat(k, 2))} :
          obs' = [obs EXCEPT !.mapSteps = @ + 1, !.lastFrom = "stage",
                             !.stage = [k |-> k, r |-> r, theta |-> theta, z |-> z,
                                        out |-> deadzoned(mapper, r, theta, z)]]
    /\ UNCHANGED <<sysVarsButMapper, mapper>>

InitEndToEnd == InitMapperWith({MapperInit, MapperOf(0, 0, 0)})

NextEndToEnd == MapEndToEnd \/ DeadzoneProbe \/ StageProbe

SpecEndToEnd == InitEndToEnd /\ [][NextEndToEnd]_vars

(***************************************************************************)
(* The decoder alone, fed with signal-quality frames, and a caller of      *)
(* is_signal_good()                                                        *)
(***************************************************************************)
\* The sample store after the read thread has read and parsed one frame with
\* payload p (_read_loop: _read_packet, then _parse_packet)
decode_frame(p, data) ==
    Only({ ParsePayload(packet.payload, 1, data) : packet \in {read_packet(Frame(p))} })

\* The headset reports a signal quality, and the read thread stores it
SignalFrame ==
    /\ serial_open /\ is_reading /\ eeg_is_connected /\ decPc = "read"
    /\ \E v \in 0..NO_SIGNAL :
          latest_data' = decode_frame(<<CODE_POOR_SIGNAL, v>>, latest_data)
    /\ obs' = [obs EXCEPT !.good = NoRecord]
    /\ UNCHANGED <<cfgVars, mainVars, stopPc, eeg_is_connected, is_reading, serial_open,
                   buf, decPc, pkt, pidx, mapper, linkVars, inflight, telVars, callerVars>>

\* A caller calls eeg.is_signal_good()
SignalCheck ==
    /\ obs.good = NoRecord
    /\ obs' = [obs EXCEPT !.good = [signal_quality |-> latest_data.signal_quality,
                                     result |-> is_signal_good(latest_data)]]
    /\ UNCHANGED <<cfgVars, mainVars, stopPc, eegVars, mapper, linkVars, inflight,
                   telVars, callerVars>>

NextSignal == SignalFrame \/ SignalCheck

SpecSignal == InitDecoder /\ [][NextSignal]_vars

(***************************************************************************)
(* The decoder alone, fed with band-power frames                           *)
(***************************************************************************)
\* An integer below 2^24 as 3 bytes, high byte first
bytes3(v) == <<v \div 65536, (v \div 256) % 256, v % 256>>

\* Eight band powers as the 24-byte block that follows CODE_ASIC_EEG_POWER
RECURSIVE band_block(_)
band_block(bands) ==
    IF bands = <<>> THEN <<>> ELSE bytes3(Head(bands)) \o band_block(Tail(bands))

band_payload(bands) == <<CODE_ASIC_EEG_POWER>> \o band_block(bands)

BandValues == { 0, 1, 255, 65536, 16777215 }

\* delta, theta, low-alpha, high-alpha, low-beta, high-beta, low-gamma, mid-gamma
BandVectors ==
    { <<x, 1, a, b, 256, 65535, 65537, 16777215 - x>> : x \in BandValues, a \in BandValues,
                                                       b \in BandValues }

\* The headset reports eight band powers, and the read thread stores them
BandFrame ==
    /\ serial_open /\ is_reading /\ eeg_is_connected /\ decPc = "read"
    /\ \E bands \in BandVectors :
          /\ latest_data' = decode_frame(band_payload(bands), latest_data)
          /\ obs' = [obs EXCEPT !.bands = bands]
    /\ UNCHANGED <<cfgVars, mainVars, stopPc, eeg_is_connected, is_reading, serial_open,
                   buf, decPc, pkt, pidx, mapper, linkVars, inflight, telVars, callerVars>>

NextBands == BandFrame

SpecBands == InitDecoder /\ [][NextBands]_vars

(***************************************************************************)
(* The blink policy alone: calls of map_alpha_to_forward_backward on one   *)
(* mapper, from an empty history to a full one                             *)
(***************************************************************************)
\* A reading in the nominal range, and readings at and next to the thresholds
NominalAlpha == 150000
EdgeAlphas ==
    { normal_alpha_lo - 1, normal_alpha_lo, normal_alpha_hi, normal_alpha_hi + 1,
      blink_threshold, blink_threshold + 1 }

\* map_alpha_to_forward_backward(alpha_power): detect_blinking appends the
\* reading to the history and classifies it; the class gives the scalar
BlinkCall ==
    /\ obs.blinkCalls < MaxBlinkCalls
    /\ \E alpha_power \in IF obs.blinkProbes < MaxBlinkProbes
                           THEN EdgeAlphas \cup {NominalAlpha} ELSE {NominalAlpha} :
          /\ mapper' = [mapper EXCEPT
                          !.alpha_history = push_history(mapper.alpha_history, alpha_power)]
          /\ obs' = [obs EXCEPT
                       !.blinkCalls = @ + 1,
                       !.blinkProbes = IF alpha_power = NominalAlpha THEN @ ELSE @ + 1,
                       !.blink = [alpha_power |-> alpha_power,
                                  retained |-> Len(mapper.alpha_history),
                                  state |-> detect_blinking(mapper.alpha_history, alpha_power),
                                  scalar |-> map_alpha_to_forward_backward(
                                                 mapper.alpha_history, alpha_power)]]
    /\ UNCHANGED sysVarsButMapper

NextBlink == BlinkCall

SpecBlink == InitMapper /\ [][NextBlink]_vars

(***************************************************************************)
(* The decoder alone, fed with payloads of every kind of entry             *)
(***************************************************************************)
\* Known entries, entries behind extension markers, a band-power block, and
\* unknown codes: 3 with one value byte, 134 with a length byte and 2 bytes
EntryPayloads ==
    { <<CODE_POOR_SIGNAL, 25, CODE_ATTENTION, 50, CODE_MEDITATION, 40>>,
      <<EXCODE, EXCODE, CODE_RAW_VALUE, 255, 254, EXCODE, CODE_MEDITATION, 70>>,
      PayloadBands,
      <<3, 7, 134, 2, CODE_ATTENTION, 99, EXCODE, CODE_ATTENTION, 60>> }

EntryHeadset == HeadsetSend(EntryPayloads, {FALSE}, MaxDecFrames)

NextEntries == EntryHeadset \/ DecRead \/ DecParse

SpecEntries == InitDecoder /\ [][NextEntries]_vars

(***************************************************************************)
(* The decoder alone, fed with frames that follow an extra sync byte       *)
(***************************************************************************)
ResyncPayloads ==
    { <<CODE_POOR_SIGNAL, 0>>, <<CODE_ATTENTION, 50>>, <<CODE_MEDITATION, 40>> }

\* The headset puts a whole valid frame on the channel, behind one more 0xAA
\* (extra) or not
ResyncHeadset ==
    /\ serial_open
    /\ obs.frames < MaxDecFrames
    /\ \E p \in ResyncPayloads, extra \in BOOLEAN :
          /\ buf' = buf \o (IF extra THEN <<SYNC>> ELSE <<>>) \o Frame(p)
          /\ obs' = [obs EXCEPT !.frames = @ + 1, !.valid = Append(@, p),
                                !.extraSyncs = IF extra THEN @ + 1 ELSE @]
    /\ UNCHANGED <<cfgVars, mainVars, stopPc, eeg_is_connected, is_reading, serial_open,
                   latest_data, decPc, pkt, pidx, mapper, linkVars, inflight,
                   telVars, callerVars>>

NextResync == ResyncHeadset \/ DecRead \/ DecParse

SpecResync == InitDecoder /\ [][NextResync]_vars

(***************************************************************************)
(* tello_controller.py: replies, and the tests made on them                *)
(***************************************************************************)
\* send_command and _receive_response touch self.response inside
\* "with self.response_lock": the actions of the start() thread and of the
\* listener take the lock, assign or test, and release it in one step, so
\* they wait while another thread holds it

\* "if self.response:" / "if response"
Truthy(r) == r # NoneVal /\ r # ""

\* str.lower() on the replies the drone can give
Lower(s) == IF s = "OK" THEN "ok" ELSE s

\* Mutant: any reply that arrives counts as the affirmative one
handshake_ok_any(r) == Truthy(r)

\* connect(): "if response and response.lower() == "ok""
handshake_ok(r) == Truthy(r) /\ Lower(r) = "ok"

\* Mutant: the handshake loop runs once more than range(3)
more_attempts_off_by_one(k) == k + 1 < HANDSHAKE_ATTEMPTS + 1

\* connect(): whether "for attempt in range(3)" has another attempt after attempt k
more_attempts(k) == k + 1 < HANDSHAKE_ATTEMPTS

\* get_battery(): "int(response) if response else 0", ValueError gives 0
get_battery(r) ==
    IF ~Truthy(r) THEN 0
    ELSE IF r = "85" THEN 85
    ELSE IF r = "10" THEN 10
    ELSE 0

\* Mutant: initialize() goes on whatever the battery level
battery_too_low_ignored(battery) == FALSE

\* initialize(): "if battery < self.config.MIN_BATTERY_LEVEL: return False"
battery_too_low(battery) == battery < MIN_BATTERY_LEVEL

\* What send_command returns once its wait ends: the stored response, or None
\* when the timeout elapses with nothing stored
send_command_result == IF Truthy(response) THEN response ELSE NoneVal

\* The replies the drone can give to each command.  A reply is on its way
\* from the moment the command is sent; one that is not received before the
\* wait for it ends is lost (no reply, or a reply after the timeout)
HsReplies == {"ok", "OK", "error"}
BatteryReplies == {"85", "10", "error"}
FlightReplies == {"ok", "error"}

\* socket.sendto of a command: the drone's reply is now in flight
Sent(rep) == <<rep>>

(***************************************************************************)
(* main.py: the tests of the control loop                                  *)
(***************************************************************************)
\* Mutant: the poor-signal gate never closes
signal_is_poor_never(signal_quality) == FALSE

\* "if signal_quality > self.config.MAX_POOR_SIGNAL"
signal_is_poor(signal_quality) == signal_quality > MAX_POOR_SIGNAL

\* Mutant: every computed command is dispatched
rate_limit_off(current_time, last) == TRUE

\* "if current_time - last_command_time >= self.config.COMMAND_INTERVAL"
rate_limit_ok(current_time, last) == current_time - last >= COMMAND_INTERVAL

\* Mutant: an exception of drone.land() leaves stop()
after_land_uncaught(raised) == IF raised THEN "raised" ELSE "disconnect"

\* stop(): where it goes after drone.land(), returned or raised: the except
\* clause logs the exception and stop() goes on to disconnect
after_land(raised) == "disconnect"

\* initialize(): where the retry loop goes after a connect() that returned False
after_connect_failed(att) ==
    IF att < max_retries - 1
    THEN [pc |-> "connect", attempt |-> att + 1]
    ELSE [pc |-> "returned", attempt |-> 0]

(***************************************************************************)
(* main.py: EEGDroneController.initialize()                                *)
(***************************************************************************)
\* MindWaveInterface(...): the constructor connects; a SerialException is
\* caught inside connect(), any other exception makes initialize() return False
InitializeEeg ==
    /\ pcMain = "start"
    /\ \E outcome \in {"ok", "SerialException", "Exception"} :
          /\ eeg' = IF outcome = "Exception" THEN NoneVal ELSE "obj"
          /\ eeg_is_connected' = (outcome = "ok")
          /\ is_reading' = (outcome = "ok")
          /\ serial_open' = (outcome = "ok")
          /\ decPc' = IF outcome = "ok" THEN "read" ELSE decPc
          /\ pcMain' = IF outcome = "Exception" THEN "returned" ELSE "create_drone"
          /\ obs' = [obs EXCEPT !.sensorOpenFailed = (outcome = "SerialException")]
    /\ UNCHANGED <<loop_delay, control_mode, auto_takeoff, is_running, shutdown_event,
                   drone, attempt, to_attempt, now, last_command_time,
                   control_loop_count, stopPc, latest_data, buf, pkt, pidx, mapper,
                   sock, is_connected, response, abort, state_running, listeners,
                   state_listeners, hs_attempt, inflight, state_sock, state_data,
                   response_lock, emgPc, held, call, data_lock>>

\* TelloController(...): the constructor binds the command socket
InitializeDrone ==
    /\ pcMain = "create_drone"
    /\ \E outcome \in {"ok", "OSError"} :
          /\ drone' = IF outcome = "ok" THEN "obj" ELSE NoneVal
          /\ sock' = IF outcome = "ok" THEN "open" ELSE sock
          /\ pcMain' = IF outcome = "ok" THEN "connect" ELSE "returned"
    /\ attempt' = 0
    /\ UNCHANGED <<loop_delay, control_mode, auto_takeoff, is_running, shutdown_event,
                   eeg, to_attempt, now, last_command_time, control_loop_count, stopPc,
                   eeg_is_connected, is_reading, serial_open, latest_data, buf, decPc,
                   pkt, pidx, mapper, is_connected, response, abort, state_running,
                   listeners, state_listeners, hs_attempt, inflight, obs, state_sock,
                   state_data, response_lock, emgPc, held, call, data_lock>>

\* connect(), up to the handshake loop: the socket is closed and bound anew
\* and a response listener is started.  A listener of an earlier connect()
\* is not stopped (abort is False): it ends if its recvfrom or settimeout
\* raises on the closed socket, and goes on with the new socket if its
\* recvfrom times out instead
ConnectOpen ==
    /\ pcMain = "connect"
    /\ sock' = "open" /\ abort' = FALSE
    /\ \E kept \in 0..listeners : listeners' = kept + 1
    /\ hs_attempt' = 0
    /\ pcMain' = "hs_send"
    /\ obs' = [obs EXCEPT !.hsSent = 0, !.connectRet = "none"]
    /\ UNCHANGED <<loop_delay, control_mode, auto_takeoff, is_running, shutdown_event,
                   eeg, drone, attempt, to_attempt, now, last_command_time,
                   control_loop_count, stopPc, eeg_is_connected, is_reading,
                   serial_open, latest_data, buf, decPc, pkt, pidx, mapper,
                   is_connected, response, state_running, state_listeners, inflight,
                   state_sock, state_data, response_lock, emgPc, held, call, data_lock>>

\* send_command("command"): the stored response is cleared and the datagram
\* sent; sendto on a socket closed meanwhile raises, and connect() returns False
HandshakeSend ==
    /\ pcMain = "hs_send"
    /\ response_lock = NoneVal
    /\ response' = NoneVal
    /\ IF sock = "closed"
       THEN /\ pcMain' = after_connect_failed(attempt).pc
            /\ attempt' = after_connect_failed(attempt).attempt
            /\ hs_attempt' = 0
            /\ obs' = [obs EXCEPT !.connectRet = "False"]
            /\ UNCHANGED inflight
       ELSE /\ \E rep \in HsReplies : inflight' = Sent(rep)
            /\ pcMain' = "hs_wait"
            /\ obs' = [obs EXCEPT !.hsSent = @ + 1]
            /\ UNCHANGED <<attempt, hs_attempt>>
    /\ UNCHANGED <<loop_delay, control_mode, auto_takeoff, is_running, shutdown_event,
                   eeg, drone, to_attempt, now, last_command_time, control_loop_count,
                   stopPc, eeg_is_connected, is_reading, serial_open, latest_data, buf,
                   decPc, pkt, pidx, mapper, sock, is_connected, abort, state_running,
                   listeners, state_listeners, state_sock, state_data, response_lock,
                   emgPc, held, call, data_lock>>

\* send_command returns to connect(): success sets the flag and starts the
\* state receiver; failure goes to the next attempt or returns False
HandshakeResult ==
    /\ pcMain = "hs_wait"
    /\ response_lock = NoneVal
    /\ \E r \in {send_command_result} :
          /\ IF handshake_ok(r)
             THEN /\ is_connected' = TRUE
                  /\ state_sock' = "open"
                  /\ state_running' = TRUE /\ state_listeners' = 1
                  /\ pcMain' = "battery_send"
                  /\ attempt' = 0 /\ hs_attempt' = 0
             ELSE /\ UNCHANGED <<is_connected, state_sock, state_running, state_listeners>>
                  /\ IF more_attempts(hs_attempt)
                     THEN /\ hs_attempt' = hs_attempt + 1
                          /\ pcMain' = "hs_send"
                          /\ UNCHANGED attempt
                     ELSE /\ hs_attempt' = 0
                          /\ pcMain' = after_connect_failed(attempt).pc
                          /\ attempt' = after_connect_failed(attempt).attempt
          /\ obs' = [obs EXCEPT
                       !.okReturned = @ \/ r \in {"ok", "OK"},
                       !.connectRet = IF handshake_ok(r) THEN "True"
                                      ELSE IF more_attempts(hs_attempt) THEN @
                                      ELSE "False",
                       !.failedCalls = IF ~handshake_ok(r) /\ ~more_attempts(hs_attempt)
                                       THEN 1 ELSE @]
    /\ inflight' = <<>>
    /\ UNCHANGED <<loop_delay, control_mode, auto_takeoff, is_running, shutdown_event,
                   eeg, drone, to_attempt, now, last_command_time, control_loop_count,
                   stopPc, eeg_is_connected, is_reading, serial_open, latest_data, buf,
                   decPc, pkt, pidx, mapper, sock, response, abort, listeners,
                   state_data, response_lock, emgPc, held, call, data_lock>>

\* get_battery(): send_command("battery?"); an exception of sendto is caught
\* by initialize(), which goes on without the battery check
BatterySend ==
    /\ pcMain = "battery_send"
    /\ response_lock = NoneVal
    /\ response' = NoneVal
    /\ IF sock = "closed"
       THEN /\ is_running' = TRUE
            /\ pcMain' = IF auto_takeoff THEN "takeoff_send" ELSE "loop_init"
            /\ UNCHANGED inflight
       ELSE /\ \E rep \in BatteryReplies : inflight' = Sent(rep)
            /\ pcMain' = "battery_wait"
            /\ UNCHANGED is_running
    /\ UNCHANGED <<loop_delay, control_mode, auto_takeoff, shutdown_event, eeg, drone,
                   attempt, to_attempt, now, last_command_time, control_loop_count,
                   stopPc, eeg_is_connected, is_reading, serial_open, latest_data, buf,
                   decPc, pkt, pidx, mapper, sock, is_connected, abort, state_running,
                   listeners, state_listeners, hs_attempt, obs, state_sock, state_data,
                   response_lock, emgPc, held, call, data_lock>>

\* The battery check of initialize(), then the start of start()
BatteryResult ==
    /\ pcMain = "battery_wait"
    /\ response_lock = NoneVal
    /\ \E r \in {send_command_result} :
       \E battery \in {get_battery(r)} :
          /\ IF battery_too_low(battery)
             THEN /\ pcMain' = "returned"
                  /\ UNCHANGED is_running
             ELSE /\ is_running' = TRUE
                  /\ pcMain' = IF auto_takeoff THEN "takeoff_send" ELSE "loop_init"
          /\ obs' = [obs EXCEPT !.battery = battery, !.batteryReply = r]
    /\ inflight' = <<>>
    /\ UNCHANGED <<loop_delay, control_mode, auto_takeoff, shutdown_event, eeg, drone,
                   attempt, to_attempt, now, last_command_time, control_loop_count,
                   stopPc, eeg_is_connected, is_reading, serial_open, latest_data, buf,
                   decPc, pkt, pidx, mapper, sock, is_connected, response, abort,
                   state_running, listeners, state_listeners, hs_attempt, state_sock,
                   state_data, response_lock, emgPc, held, call, data_lock>>

(***************************************************************************)
(* main.py: EEGDroneController.start()                                     *)
(***************************************************************************)
\* takeoff(): send_command("takeoff"); an exception of sendto leaves start()
\* through its finally clause
TakeoffSend ==
    /\ pcMain = "takeoff_send"
    /\ response_lock = NoneVal
    /\ response' = NoneVal
    /\ IF sock = "closed"
       THEN /\ pcMain' = "finally" /\ to_attempt' = 0
            /\ UNCHANGED <<inflight, obs>>
       ELSE /\ \E rep \in FlightReplies : inflight' = Sent(rep)
            /\ pcMain' = "takeoff_wait"
            /\ obs' = [obs EXCEPT !.takeoffSent = TRUE]
            /\ UNCHANGED to_attempt
    /\ UNCHANGED <<loop_delay, control_mode, auto_takeoff, is_running, shutdown_event,
                   eeg, drone, attempt, now, last_command_time, control_loop_count,
                   stopPc, eeg_is_connected, is_reading, serial_open, latest_data, buf,
                   decPc, pkt, pidx, mapper, sock, is_connected, abort, state_running,
                   listeners, state_listeners, hs_attempt, state_sock, state_data,
                   response_lock, emgPc, held, call, data_lock>>

\* takeoff(): "if response == "ok": return True", else the next attempt
TakeoffResult ==
    /\ pcMain = "takeoff_wait"
    /\ response_lock = NoneVal
    /\ IF send_command_result = "ok" \/ to_attempt + 1 >= TAKEOFF_ATTEMPTS
       THEN pcMain' = "loop_init" /\ to_attempt' = 0
       ELSE pcMain' = "wake_send" /\ to_attempt' = to_attempt + 1
    /\ inflight' = <<>>
    /\ UNCHANGED <<loop_delay, control_mode, auto_takeoff, is_running, shutdown_event,
                   eeg, drone, attempt, now, last_command_time, control_loop_count,
                   stopPc, eeg_is_connected, is_reading, serial_open, latest_data, buf,
                   decPc, pkt, pidx, mapper, sock, is_connected, response, abort,
                   state_running, listeners, state_listeners, hs_attempt, obs,
                   state_sock, state_data, response_lock, emgPc, held, call, data_lock>>

\* takeoff(): "Send command mode again to wake up drone"
TakeoffWakeSend ==
    /\ pcMain = "wake_send"
    /\ response_lock = NoneVal
    /\ response' = NoneVal
    /\ IF sock = "closed"
       THEN /\ pcMain' = "finally" /\ to_attempt' = 0
            /\ UNCHANGED inflight
       ELSE /\ \E rep \in FlightReplies : inflight' = Sent(rep)
            /\ pcMain' = "wake_wait"
            /\ UNCHANGED to_attempt
    /\ UNCHANGED <<loop_delay, control_mode, auto_takeoff, is_running, shutdown_event,
                   eeg, drone, attempt, now, last_command_time, control_loop_count,
                   stopPc, eeg_is_connected, is_reading, serial_open, latest_data, buf,
                   decPc, pkt, pidx, mapper, sock, is_connected, abort, state_running,
                   listeners, state_listeners, hs_attempt, obs, state_sock, state_data,
                   response_lock, emgPc, held, call, data_lock>>

\* takeoff(): the answer to the wake-up command is not looked at
TakeoffWakeResult ==
    /\ pcMain = "wake_wait"
    /\ response_lock = NoneVal
    /\ pcMain' = "takeoff_send"
    /\ inflight' = <<>>
    /\ UNCHANGED <<loop_delay, control_mode, auto_takeoff, is_running, shutdown_event,
                   eeg, drone, attempt, to_attempt, now, last_command_time,
                   control_loop_count, stopPc, eeg_is_connected, is_reading,
                   serial_open, latest_data, buf, decPc, pkt, pidx, mapper, sock,
                   is_connected, response, abort, state_running, listeners,
                   state_listeners, hs_attempt, obs, state_sock, state_data,
                   response_lock, emgPc, held, call, data_lock>>

\* "control_loop_count = 0; last_command_time = time.time()"
LoopInit ==
    /\ pcMain = "loop_init"
    /\ control_loop_count' = 0
    /\ last_command_time' = now
    /\ pcMain' = "loop_check"
    /\ UNCHANGED <<loop_delay, control_mode, auto_takeoff, is_running, shutdown_event,
                   eeg, drone, attempt, to_attempt, now, stopPc, eeg_is_connected,
                   is_reading, serial_open, latest_data, buf, decPc, pkt, pidx, mapper,
                   sock, is_connected, response, abort, state_running, listeners,
                   state_listeners, hs_attempt, inflight, obs, state_sock, state_data,
                   response_lock, emgPc, held, call, data_lock>>

\* "while self.is_running and not shutdown_event.is_set()"
LoopCheck ==
    /\ pcMain = "loop_check"
    /\ IF is_running /\ ~shutdown_event
       THEN obs.ticks < MaxTicks /\ pcMain' = "tick"
       ELSE pcMain' = "finally"
    /\ UNCHANGED <<loop_delay, control_mode, auto_takeoff, is_running, shutdown_event,
                   eeg, drone, attempt, to_attempt, now, last_command_time,
                   control_loop_count, stopPc, eeg_is_connected, is_reading,
                   serial_open, latest_data, buf, decPc, pkt, pidx, mapper, sock,
                   is_connected, response, abort, state_running, listeners,
                   state_listeners, hs_attempt, inflight, obs, state_sock, state_data,
                   response_lock, emgPc, held, call, data_lock>>

\* Mutant: an exception raised in the loop body leaves the while loop
after_tick_error_uncaught(fault) == IF fault = "none" THEN "sleep" ELSE "finally"

\* Where the loop goes after its body: an exception raised in the body is
\* caught by "except Exception" inside the while loop and logged, and the
\* thread goes on to time.sleep(LOOP_DELAY) like after a body that ended
after_tick_error(fault) == "sleep"

\* Mutant: the mapper is called only for a command that is due
mapper_after_tick_dispatched(m, res, due) == IF due THEN res.mapper ELSE m

\* The mapper object after a pass with acceptable signal: the loop calls
\* map_alpha_to_coordinates before it looks at the command interval
mapper_after_tick(m, res, due) == res.mapper

\* Whether a telemetry dict breaks a limit of config.py
telemetry_unsafe(d) ==
    /\ d # <<>>
    /\ \/ ("bat" \in DOMAIN d /\ d["bat"] < MIN_BATTERY_LEVEL)
       \/ ("h" \in DOMAIN d /\ d["h"] > MAX_HEIGHT)

\* "if control_loop_count % 20 == 0": whether a pass with poor signal logs
\* the warning
poor_signal_logged(count) == count % POOR_LOG_EVERY = 0

\* One pass of the loop body, from read_data() to the dispatch.  fault is
\* where an exception is raised in it: nowhere ("none"), in read_data
\* ("read"), in the mapper ("map"), or in socket.sendto ("send": the
\* network is unreachable); sendto on a closed socket raises by itself
TickWith(faults) ==
    /\ pcMain = "tick"
    /\ \E fault \in faults :
       \E data \in {latest_data} :
          /\ pcMain' = after_tick_error(fault)
          /\ IF fault = "read"
             THEN /\ obs' = [obs EXCEPT !.ticks = @ + 1, !.faultTick = obs.ticks + 1]
                  /\ UNCHANGED <<mapper, last_command_time, control_loop_count>>
             ELSE IF signal_is_poor(data.signal_quality)
             THEN /\ fault = "none"
                  /\ obs' = [obs EXCEPT
                               !.ticks = @ + 1,
                               !.poorStart = IF @ = -1 THEN now ELSE @,
                               !.tickLast = [t |-> now, sq |-> data.signal_quality,
                                             rcCount |-> obs.rcCount,
                                             warned |-> poor_signal_logged(control_loop_count)]]
                  /\ UNCHANGED <<mapper, last_command_time, control_loop_count>>
             ELSE IF fault = "map"
             THEN /\ obs' = [obs EXCEPT !.ticks = @ + 1, !.faultTick = obs.ticks + 1]
                  /\ UNCHANGED <<mapper, last_command_time, control_loop_count>>
             ELSE \E res \in {tick_compute(control_mode, mapper, data)} :
                  \E due \in {rate_limit_ok(now, last_command_time)} :
                  \E sent \in {due /\ sock = "open" /\ fault # "send"} :
                     /\ fault = "send" => due
                     /\ mapper' = mapper_after_tick(mapper, res, due)
                     /\ last_command_time' = IF sent THEN now ELSE last_command_time
                     /\ control_loop_count' = control_loop_count + 1
                     /\ obs' = [obs EXCEPT
                                  !.ticks = @ + 1,
                                  !.faultTick = IF fault = "send" THEN obs.ticks + 1 ELSE @,
                                  !.poorStart = -1,
                                  !.tickLast = [t |-> now, sq |-> data.signal_quality,
                                                rcCount |-> obs.rcCount, warned |-> FALSE],
                                  !.cmdPrev = obs.cmdLast,
                                  !.cmdLast = [t |-> now, elapsed |-> now - last_command_time,
                                               sent |-> sent, raised |-> due /\ ~sent],
                                  !.rcCount = IF sent THEN @ + 1 ELSE @,
                                  !.rcPrev = IF sent THEN obs.rcLast ELSE @,
                                  !.rcLast = IF sent THEN now ELSE @,
                                  !.lastRc = IF sent
                                             THEN rc_arguments(res.cmd[1], res.cmd[2],
                                                               res.cmd[3], res.cmd[4])
                                             ELSE @,
                                  !.rcAfterStop = @ \/ (sent /\ obs.stopInvoked),
                                  !.rcUnsafe = @ \/ (sent /\ telemetry_unsafe(state_data))]
    /\ UNCHANGED <<loop_delay, control_mode, auto_takeoff, is_running, shutdown_event,
                   eeg, drone, attempt, to_attempt, now, stopPc, eeg_is_connected,
                   is_reading, serial_open, latest_data, buf, decPc, pkt, pidx, sock,
                   is_connected, response, abort, state_running, listeners,
                   state_listeners, hs_attempt, inflight, state_sock, state_data,
                   response_lock, emgPc, held, call, data_lock>>

\* The loop body where nothing raises but sendto on a closed socket
Tick == TickWith({"none"})

\* time.sleep(LOOP_DELAY): the thread resumes after the delay, or (late) later
SleepWith(lates) ==
    /\ pcMain = "sleep"
    /\ \E late \in lates :
          /\ late => obs.longSleeps < MaxLongSleeps
          /\ now' = now + loop_delay + (IF late THEN AUTO_LAND_ON_POOR_SIGNAL_TIMEOUT ELSE 0)
          /\ obs' = [obs EXCEPT !.longSleeps = IF late THEN @ + 1 ELSE @]
    /\ pcMain' = "loop_check"
    /\ UNCHANGED <<loop_delay, control_mode, auto_takeoff, is_running, shutdown_event,
                   eeg, drone, attempt, to_attempt, last_command_time,
                   control_loop_count, stopPc, eeg_is_connected, is_reading,
                   serial_open, latest_data, buf, decPc, pkt, pidx, mapper, sock,
                   is_connected, response, abort, state_running, listeners,
                   state_listeners, hs_attempt, inflight, state_sock, state_data,
                   response_lock, emgPc, held, call, data_lock>>

Sleep == SleepWith(BOOLEAN)

\* The sleeps of a thread that is never held up
SleepOnTime == SleepWith({FALSE})

\* Where the thread of start() is while the loop runs
LoopPcs == {"loop_check", "tick", "sleep"}

\* signal_handler: SIGINT or SIGTERM, sent while the loop runs
SignalHandler ==
    /\ pcMain \in LoopPcs
    /\ ~shutdown_event
    /\ shutdown_event' = TRUE
    /\ UNCHANGED <<loop_delay, control_mode, auto_takeoff, pcMain, is_running, eeg,
                   drone, attempt, to_attempt, now, last_command_time,
                   control_loop_count, stopPc, eeg_is_connected, is_reading,
                   serial_open, latest_data, buf, decPc, pkt, pidx, mapper, sock,
                   is_connected, response, abort, state_running, listeners,
                   state_listeners, hs_attempt, inflight, obs, state_sock, state_data,
                   response_lock, emgPc, held, call, data_lock>>

(***************************************************************************)
(* main.py: EEGDroneController.stop(), run by thread t                     *)
(***************************************************************************)
\* Mutant: stop() disconnects the drone without landing it first
stop_first_step_no_land(d, e) ==
    IF d # NoneVal THEN "disconnect" ELSE IF e # NoneVal THEN "eeg" ELSE "done"

\* stop(): what follows "self.is_running = False": "if self.drone:" the
\* landing, else "if self.eeg:" the sensor, else the end
stop_first_step(d, e) ==
    IF d # NoneVal THEN "land_send" ELSE IF e # NoneVal THEN "eeg" ELSE "done"

\* "self.is_running = False"
StopBegin(t) ==
    /\ stopPc[t] = "idle"
    /\ IF t = "main" THEN pcMain = "finally"
       ELSE obs.extStops < MaxExtStops /\ pcMain \in {"start", "returned"} \cup LoopPcs
    /\ is_running' = FALSE
    /\ pcMain' = IF t = "main" THEN "stop" ELSE pcMain
    /\ stopPc' = [stopPc EXCEPT ![t] = stop_first_step(drone, eeg)]
    /\ obs' = [obs EXCEPT !.stopInvoked = @ \/ is_running,
                          !.repeated = @ \/ obs.stopsDone > 0,
                          !.stopFrom = IF t = "main" THEN @
                                       ELSE IF pcMain \in LoopPcs THEN "loop"
                                       ELSE pcMain,
                          !.extStops = IF t = "ext" THEN @ + 1 ELSE @]
    /\ UNCHANGED <<loop_delay, control_mode, auto_takeoff, shutdown_event, eeg, drone,
                   attempt, to_attempt, now, last_command_time, control_loop_count,
                   eeg_is_connected, is_reading, serial_open, latest_data, buf, decPc,
                   pkt, pidx, mapper, sock, is_connected, response, abort,
                   state_running, listeners, state_listeners, hs_attempt, inflight,
                   state_sock, state_data, response_lock, emgPc, held, call, data_lock>>

\* drone.land(): send_command("land"); sendto on a closed socket raises
StopLandSend(t) ==
    /\ stopPc[t] = "land_send"
    /\ response_lock = NoneVal
    /\ response' = NoneVal
    /\ IF sock = "closed"
       THEN /\ stopPc' = [stopPc EXCEPT ![t] = after_land(TRUE)]
            /\ obs' = [obs EXCEPT !.landRaised = TRUE]
            /\ UNCHANGED inflight
       ELSE /\ \E rep \in FlightReplies : inflight' = Sent(rep)
            /\ stopPc' = [stopPc EXCEPT ![t] = "land_wait"]
            /\ obs' = [obs EXCEPT !.landSent = TRUE]
    /\ UNCHANGED <<loop_delay, control_mode, auto_takeoff, pcMain, is_running,
                   shutdown_event, eeg, drone, attempt, to_attempt, now,
                   last_command_time, control_loop_count, eeg_is_connected, is_reading,
                   serial_open, latest_data, buf, decPc, pkt, pidx, mapper, sock,
                   is_connected, abort, state_running, listeners, state_listeners,
                   hs_attempt, state_sock, state_data, response_lock, emgPc, held,
                   call, data_lock>>

\* drone.land() returns, whatever the answer
StopLandResult(t) ==
    /\ stopPc[t] = "land_wait"
    /\ response_lock = NoneVal
    /\ stopPc' = [stopPc EXCEPT ![t] = after_land(FALSE)]
    /\ inflight' = <<>>
    /\ UNCHANGED <<loop_delay, control_mode, auto_takeoff, pcMain, is_running,
                   shutdown_event, eeg, drone, attempt, to_attempt, now,
                   last_command_time, control_loop_count, eeg_is_connected, is_reading,
                   serial_open, latest_data, buf, decPc, pkt, pidx, mapper, sock,
                   is_connected, response, abort, state_running, listeners,
                   state_listeners, hs_attempt, obs, state_sock, state_data,
                   response_lock, emgPc, held, call, data_lock>>

\* Mutant: the "emergency" datagram is sent outside the try block, so sendto
\* on a socket that is already closed raises out of disconnect()
disconnect_raises_unguarded(s, connected) == s = "closed"

\* disconnect(): sendto and both close() calls sit in try/except blocks that
\* pass, the joins have timeouts: nothing is raised
disconnect_raises(s, connected) == FALSE

\* disconnect(): "if self.socket and self.is_connected": whether the call
\* tries to send "emergency"; self.socket is never None
emergency_attempted(s, connected) == connected

\* drone.disconnect(), up to the joins; an exception would be caught and
\* logged by stop()
StopDisconnect(t) ==
    /\ stopPc[t] = "disconnect"
    /\ abort' = TRUE /\ state_running' = FALSE
    /\ \E raised \in {disconnect_raises(sock, is_connected)} :
       \E attempted \in {emergency_attempted(sock, is_connected)} :
          /\ obs' = [obs EXCEPT
                       !.emergencySent = @ \/ (~raised /\ attempted /\ sock = "open"),
                       !.emergencyMissed = @ \/ ~attempted,
                       !.disconnects = IF @ < 2 THEN @ + 1 ELSE @,
                       !.disconnectRaised = @ \/ raised]
          /\ IF raised
             THEN /\ UNCHANGED <<sock, state_sock, inflight, is_connected>>
                  /\ stopPc' = [stopPc EXCEPT ![t] = IF eeg # NoneVal THEN "eeg" ELSE "done"]
             ELSE /\ sock' = "closed" /\ inflight' = <<>>
                  /\ state_sock' = IF state_sock = "none" THEN "none" ELSE "closed"
                  /\ is_connected' = FALSE
                  /\ stopPc' = [stopPc EXCEPT ![t] = "join"]
    /\ UNCHANGED <<loop_delay, control_mode, auto_takeoff, pcMain, is_running,
                   shutdown_event, eeg, drone, attempt, to_attempt, now,
                   last_command_time, control_loop_count, eeg_is_connected, is_reading,
                   serial_open, latest_data, buf, decPc, pkt, pidx, mapper, response,
                   listeners, state_listeners, hs_attempt, state_data, response_lock,
                   emgPc, held, call, data_lock>>

\* disconnect(): receive_thread.join(timeout=2) and state_thread.join(timeout=2)
\* return: each thread ends within the 1 s timeout of its read
StopJoin(t) ==
    /\ stopPc[t] = "join"
    /\ listeners = 0 /\ state_listeners = 0
    /\ stopPc' = [stopPc EXCEPT ![t] = IF eeg # NoneVal THEN "eeg" ELSE "done"]
    /\ UNCHANGED <<loop_delay, control_mode, auto_takeoff, pcMain, is_running,
                   shutdown_event, eeg, drone, attempt, to_attempt, now,
                   last_command_time, control_loop_count, eeg_is_connected, is_reading,
                   serial_open, latest_data, buf, decPc, pkt, pidx, mapper, sock,
                   is_connected, response, abort, state_running, listeners,
                   state_listeners, hs_attempt, inflight, obs, state_sock, state_data,
                   response_lock, emgPc, held, call, data_lock>>

\* eeg.disconnect(): "self.is_reading = False", then the join of the read
\* thread begins
StopEeg(t) ==
    /\ stopPc[t] = "eeg"
    /\ is_reading' = FALSE
    /\ stopPc' = [stopPc EXCEPT ![t] = "eeg_close"]
    /\ UNCHANGED <<loop_delay, control_mode, auto_takeoff, pcMain, is_running,
                   shutdown_event, eeg, drone, attempt, to_attempt, now,
                   last_command_time, control_loop_count, eeg_is_connected,
                   serial_open, latest_data, buf, decPc, pkt, pidx, mapper, sock,
                   is_connected, response, abort, state_running, listeners,
                   state_listeners, hs_attempt, inflight, obs, state_sock, state_data,
                   response_lock, emgPc, held, call, data_lock>>

\* eeg.disconnect(): read_thread.join(timeout=2) returned, because the thread
\* ended or because 2 s passed; the port is closed and is_connected cleared
StopEegClose(t) ==
    /\ stopPc[t] = "eeg_close"
    /\ serial_open' = FALSE /\ eeg_is_connected' = FALSE
    /\ buf' = <<>>
    /\ stopPc' = [stopPc EXCEPT ![t] = "done"]
    /\ UNCHANGED <<loop_delay, control_mode, auto_takeoff, pcMain, is_running,
                   shutdown_event, eeg, drone, attempt, to_attempt, now,
                   last_command_time, control_loop_count, is_reading, latest_data,
                   decPc, pkt, pidx, mapper, sock, is_connected, response, abort,
                   state_running, listeners, state_listeners, hs_attempt, inflight,
                   obs, state_sock, state_data, response_lock, emgPc, held, call,
                   data_lock>>

\* stop() returns to its caller
StopReturn(t) ==
    /\ stopPc[t] = "done"
    /\ stopPc' = [stopPc EXCEPT ![t] = "idle"]
    /\ pcMain' = IF t = "main" THEN "returned" ELSE pcMain
    /\ obs' = [obs EXCEPT !.stopsDone = IF @ < 2 THEN @ + 1 ELSE @]
    /\ UNCHANGED <<loop_delay, control_mode, auto_takeoff, is_running, shutdown_event,
                   eeg, drone, attempt, to_attempt, now, last_command_time,
                   control_loop_count, eeg_is_connected, is_reading, serial_open,
                   latest_data, buf, decPc, pkt, pidx, mapper, sock, is_connected,
                   response, abort, state_running, listeners, state_listeners,
                   hs_attempt, inflight, state_sock, state_data, response_lock, emgPc,
                   held, call, data_lock>>

(***************************************************************************)
(* tello_controller.py: the response listener thread                       *)
(***************************************************************************)
\* _receive_response: one datagram received and stored
ReceiveResponse ==
    /\ listeners > 0 /\ ~abort /\ sock = "open"
    /\ response_lock = NoneVal
    /\ inflight # <<>>
    /\ response' = Head(inflight)
    /\ inflight' = Tail(inflight)
    /\ UNCHANGED <<loop_delay, control_mode, auto_takeoff, pcMain, is_running,
                   shutdown_event, eeg, drone, attempt, to_attempt, now,
                   last_command_time, control_loop_count, stopPc, eeg_is_connected,
                   is_reading, serial_open, latest_data, buf, decPc, pkt, pidx, mapper,
                   sock, is_connected, abort, state_running, listeners,
                   state_listeners, hs_attempt, obs, state_sock, state_data,
                   response_lock, emgPc, held, call, data_lock>>

\* _receive_response: recvfrom has timed out (settimeout(1.0)) or raised on
\* the closed socket, and "while not self.abort" ends the thread
ListenerExit ==
    /\ listeners > 0 /\ abort
    /\ listeners' = listeners - 1
    /\ UNCHANGED <<loop_delay, control_mode, auto_takeoff, pcMain, is_running,
                   shutdown_event, eeg, drone, attempt, to_attempt, now,
                   last_command_time, control_loop_count, stopPc, eeg_is_connected,
                   is_reading, serial_open, latest_data, buf, decPc, pkt, pidx, mapper,
                   sock, is_connected, response, abort, state_running, state_listeners,
                   hs_attempt, inflight, obs, state_sock, state_data, response_lock,
                   emgPc, held, call, data_lock>>

\* _receive_state: recvfrom has timed out or raised, and
\* "while self.state_running" ends the thread
StateListenerExit ==
    /\ state_listeners > 0 /\ ~state_running
    /\ state_listeners' = 0
    /\ UNCHANGED <<loop_delay, control_mode, auto_takeoff, pcMain, is_running,
                   shutdown_event, eeg, drone, attempt, to_attempt, now,
                   last_command_time, control_loop_count, stopPc, eeg_is_connected,
                   is_reading, serial_open, latest_data, buf, decPc, pkt, pidx, mapper,
                   sock, is_connected, response, abort, state_running, listeners,
                   hs_attempt, inflight, obs, state_sock, state_data, response_lock,
                   emgPc, held, call, data_lock>>

ListenerExits == ListenerExit \/ StateListenerExit

(***************************************************************************)
(* The whole program                                                       *)
(***************************************************************************)
SysPayloads == { <<CODE_POOR_SIGNAL, 0>>, <<CODE_POOR_SIGNAL, 200>> }

\* One frame from the headset, read and parsed by the read thread of
\* MindWaveInterface (_read_loop: _read_packet, then _parse_packet)
SensorFrameWith(payloads) ==
    /\ pcMain \in LoopPcs
    /\ decPc = "read"
    /\ serial_open /\ is_reading /\ eeg_is_connected
    /\ \E p \in payloads :
          \E packet \in {read_packet(Frame(p))} :
             latest_data' = ParsePayload(packet.payload, 1, latest_data)
    /\ UNCHANGED <<loop_delay, control_mode, auto_takeoff, pcMain, is_running,
                   shutdown_event, eeg, drone, attempt, to_attempt, now,
                   last_command_time, control_loop_count, stopPc, eeg_is_connected,
                   is_reading, serial_open, buf, decPc, pkt, pidx, mapper, sock,
                   is_connected, response, abort, state_running, listeners,
                   state_listeners, hs_attempt, inflight, obs, state_sock, state_data,
                   response_lock, emgPc, held, call, data_lock>>

SensorFrame == SensorFrameWith(SysPayloads)

\* The configuration of config.py, one with a tick delay shorter than the
\* command interval, and one with the automatic takeoff enabled
Configs == { <<LOOP_DELAY, AUTO_TAKEOFF>>, <<1, AUTO_TAKEOFF>>, <<LOOP_DELAY, TRUE>> }

Init ==
    /\ BaseInit
    /\ \E c \in Configs : loop_delay = c[1] /\ auto_takeoff = c[2]

\* initialize() and the control loop, in the thread of start()
MainSteps ==
    \/ InitializeEeg \/ InitializeDrone \/ ConnectOpen
    \/ HandshakeSend \/ HandshakeResult \/ BatterySend \/ BatteryResult
    \/ LoopInit \/ LoopCheck \/ Tick \/ Sleep

\* The same with punctual sleeps
PunctualSteps ==
    \/ InitializeEeg \/ InitializeDrone \/ ConnectOpen
    \/ HandshakeSend \/ HandshakeResult \/ BatterySend \/ BatteryResult
    \/ LoopInit \/ LoopCheck \/ Tick \/ SleepOnTime

Next ==
    \/ MainSteps
    \/ TakeoffSend \/ TakeoffResult \/ TakeoffWakeSend \/ TakeoffWakeResult
    \/ SignalHandler
    \/ StopBegin("main") \/ StopLandSend("main") \/ StopLandResult("main")
    \/ StopDisconnect("main") \/ StopJoin("main")
    \/ StopEeg("main") \/ StopEegClose("main") \/ StopReturn("main")
    \/ ReceiveResponse \/ ListenerExits
    \/ SensorFrame

Spec == Init /\ [][Next]_vars

(***************************************************************************)
(* The program as config.py configures it, with a second thread that calls *)
(* stop(): before start(), while the loop runs, or after start() returned  *)
(***************************************************************************)
InitStop ==
    /\ BaseInit
    /\ loop_delay = LOOP_DELAY /\ auto_takeoff = AUTO_TAKEOFF

NextStop ==
    \/ PunctualSteps
    \/ \E t \in Threads : StopBegin(t)
    \/ \E t \in Threads : StopLandSend(t)
    \/ \E t \in Threads : StopLandResult(t)
    \/ \E t \in Threads : StopDisconnect(t)
    \/ \E t \in Threads : StopJoin(t)
    \/ \E t \in Threads : StopEeg(t)
    \/ \E t \in Threads : StopEegClose(t)
    \/ \E t \in Threads : StopReturn(t)
    \/ ReceiveResponse \/ ListenerExits
    \/ SensorFrame

SpecStop == InitStop /\ [][NextStop]_vars


(***************************************************************************)
(* The program as config.py configures it, with exceptions raised inside   *)
(* the loop body                                                           *)
(***************************************************************************)
Faults == {"none", "read", "map", "send"}

TickFaulty == TickWith(Faults)

NextFaults ==
    \/ PunctualSteps \/ TickFaulty
    \/ SignalHandler
    \/ StopBegin("main") \/ StopLandSend("main") \/ StopLandResult("main")
    \/ StopDisconnect("main") \/ StopJoin("main")
    \/ StopEeg("main") \/ StopEegClose("main") \/ StopReturn("main")
    \/ ReceiveResponse \/ ListenerExits
    \/ SensorFrame

SpecFaults == InitStop /\ [][NextFaults]_vars

(***************************************************************************)
(* tello_controller.py: the state listener thread                          *)
(***************************************************************************)
\* float(value) on the value texts of a state datagram
float_of(text) ==
    IF text = "85" THEN 85
    ELSE IF text = "10" THEN 10
    ELSE IF text = "50" THEN 50
    ELSE IF text = "350" THEN 350
    ELSE text

\* _receive_state: the datagram split at ';', the items that hold a ':' split
\* into key and value, the value converted with float() where it converts
parse_state(items) ==
    LET pairs == { items[n] : n \in { m \in DOMAIN items : Len(items[m]) = 2 } }
    IN  [k \in { it[1] : it \in pairs } |->
            float_of((CHOOSE it \in pairs : it[1] = k)[2])]

\* State datagrams of the drone: battery percentage and height in cm; an item
\* without ':' is skipped
TelemetryDatagrams ==
    { << <<"bat", "85">>, <<"h", "50">> >>,
      << <<"bat", "10">>, <<"h", "50">>, <<"">> >>,
      << <<"bat", "85">>, <<"h", "350">> >> }

\* _receive_state: one datagram received, parsed into a new dict, and
\* self.state_data set to that dict under state_lock
ReceiveState ==
    /\ state_running /\ state_listeners > 0 /\ state_sock = "open"
    /\ \E d \in TelemetryDatagrams :
          /\ state_data' = parse_state(d)
          /\ state_data' # state_data
    /\ UNCHANGED <<loop_delay, control_mode, auto_takeoff, pcMain, is_running,
                   shutdown_event, eeg, drone, attempt, to_attempt, now,
                   last_command_time, control_loop_count, stopPc, eeg_is_connected,
                   is_reading, serial_open, latest_data, buf, decPc, pkt, pidx, mapper,
                   sock, is_connected, response, abort, state_running, listeners,
                   state_listeners, hs_attempt, inflight, obs, state_sock,
                   response_lock, emgPc, held, call, data_lock>>

(***************************************************************************)
(* The program as config.py configures it, with the drone sending state    *)
(* datagrams                                                               *)
(***************************************************************************)
NextTelemetry ==
    \/ PunctualSteps
    \/ SignalHandler
    \/ StopBegin("main") \/ StopLandSend("main") \/ StopLandResult("main")
    \/ StopDisconnect("main") \/ StopJoin("main")
    \/ StopEeg("main") \/ StopEegClose("main") \/ StopReturn("main")
    \/ ReceiveResponse \/ ListenerExits
    \/ SensorFrame
    \/ ReceiveState

SpecTelemetry == InitStop /\ [][NextTelemetry]_vars

(***************************************************************************)
(* Callers of read_data() and get_state(), and the mappings they hold      *)
(***************************************************************************)
\* Mutant: read_data returns self.latest_data itself
read_data_alias(store) == [kind |-> "alias", value |-> store]

\* read_data(): "return self.latest_data.copy()" under data_lock: a new dict
\* with the items of the store (the values are ints)
read_data(store) == [kind |-> "copy", value |-> store]

\* get_state(): "return self.state_data.copy()" under state_lock
get_state(store) == [kind |-> "copy", value |-> store]

\* What a held mapping shows now: a copy shows its own items, the store
\* itself shows the items of the store
Visible(h, store) == IF h.kind = "alias" THEN store ELSE h.value

\* What a caller writes into the mapping it was given
CallerAttention == 99
with_attention(d) == [d EXCEPT !.attention = CallerAttention]
with_battery(d) == [k \in DOMAIN d \cup {"bat"} |-> IF k = "bat" THEN 0 ELSE d[k]]

\* Mutant: read_data() copies the store without taking the lock
lock_free_unchecked(lock) == TRUE

\* "with self.data_lock:": a thread enters when no thread holds the lock
lock_free(lock) == lock = NoneVal

\* A caller (the control loop, the dashboard) calls eeg.read_data()
ReadData ==
    /\ eeg # NoneVal
    /\ lock_free(data_lock)
    /\ held' = [held EXCEPT !.eeg = read_data(latest_data)]
    /\ held' # held
    /\ UNCHANGED <<loop_delay, control_mode, auto_takeoff, pcMain, is_running,
                   shutdown_event, eeg, drone, attempt, to_attempt, now,
                   last_command_time, control_loop_count, stopPc, eeg_is_connected,
                   is_reading, serial_open, latest_data, buf, decPc, pkt, pidx, mapper,
                   sock, is_connected, response, abort, state_running, listeners,
                   state_listeners, hs_attempt, inflight, obs, state_sock, state_data,
                   response_lock, emgPc, call, data_lock>>

\* A caller calls drone.get_state()
GetState ==
    /\ drone # NoneVal
    /\ held' = [held EXCEPT !.tel = get_state(state_data)]
    /\ held' # held
    /\ UNCHANGED <<loop_delay, control_mode, auto_takeoff, pcMain, is_running,
                   shutdown_event, eeg, drone, attempt, to_attempt, now,
                   last_command_time, control_loop_count, stopPc, eeg_is_connected,
                   is_reading, serial_open, latest_data, buf, decPc, pkt, pidx, mapper,
                   sock, is_connected, response, abort, state_running, listeners,
                   state_listeners, hs_attempt, inflight, obs, state_sock, state_data,
                   response_lock, emgPc, call, data_lock>>

\* A caller assigns to an item of the mapping read_data() gave it
CallerModifySample ==
    /\ held.eeg # NoRecord
    /\ Visible(held.eeg, latest_data).attention # CallerAttention
    /\ IF held.eeg.kind = "alias"
       THEN /\ latest_data' = with_attention(latest_data)
            /\ held' = [held EXCEPT !.eeg.value = with_attention(latest_data)]
       ELSE /\ held' = [held EXCEPT !.eeg.value = with_attention(@)]
            /\ UNCHANGED latest_data
    /\ UNCHANGED <<loop_delay, control_mode, auto_takeoff, pcMain, is_running,
                   shutdown_event, eeg, drone, attempt, to_attempt, now,
                   last_command_time, control_loop_count, stopPc, eeg_is_connected,
                   is_reading, serial_open, buf, decPc, pkt, pidx, mapper, sock,
                   is_connected, response, abort, state_running, listeners,
                   state_listeners, hs_attempt, inflight, obs, state_sock, state_data,
                   response_lock, emgPc, call, data_lock>>

\* A caller assigns to an item of the mapping get_state() gave it
CallerModifyState ==
    /\ held.tel # NoRecord
    /\ Visible(held.tel, state_data) # with_battery(Visible(held.tel, state_data))
    /\ IF held.tel.kind = "alias"
       THEN /\ state_data' = with_battery(state_data)
            /\ held' = [held EXCEPT !.tel.value = with_battery(state_data)]
       ELSE /\ held' = [held EXCEPT !.tel.value = with_battery(@)]
            /\ UNCHANGED state_data
    /\ UNCHANGED <<loop_delay, control_mode, auto_takeoff, pcMain, is_running,
                   shutdown_event, eeg, drone, attempt, to_attempt, now,
                   last_command_time, control_loop_count, stopPc, eeg_is_connected,
                   is_reading, serial_open, latest_data, buf, decPc, pkt, pidx, mapper,
                   sock, is_connected, response, abort, state_running, listeners,
                   state_listeners, hs_attempt, inflight, obs, state_sock,
                   response_lock, emgPc, call, data_lock>>

\* initialize() up to the start of the loop, the sensor and state threads,
\* and the callers
NextReaders ==
    \/ InitializeEeg \/ InitializeDrone \/ ConnectOpen
    \/ HandshakeSend \/ HandshakeResult \/ BatterySend \/ BatteryResult
    \/ LoopInit
    \/ ReceiveResponse
    \/ SensorFrame
    \/ ReceiveState
    \/ ReadData \/ GetState \/ CallerModifySample \/ CallerModifyState

SpecReaders == InitStop /\ [][NextReaders]_vars

(***************************************************************************)
(* tello_controller.py: emergency() called by another thread               *)
(***************************************************************************)
EmgReplies == {"ok", "error"}

\* Mutant: the polling loop of send_command sleeps inside the with block
lock_after_check_held(found) == IF found THEN NoneVal ELSE "emg"

\* send_command: the with block of the polling loop ends before
\* time.sleep(0.01): the lock is free after the test, whatever it found
lock_after_check(found) == NoneVal

\* emergency() is called while stop() is in progress
EmgCall ==
    /\ emgPc = "idle" /\ drone # NoneVal
    /\ obs.emgCalls < MaxEmergencyCalls
    /\ stopPc["main"] # "idle"
    /\ emgPc' = "lock_clear"
    /\ obs' = [obs EXCEPT !.emgCalls = @ + 1, !.emgPolls = 0, !.emgResult = "none"]
    /\ UNCHANGED <<loop_delay, control_mode, auto_takeoff, pcMain, is_running,
                   shutdown_event, eeg, drone, attempt, to_attempt, now,
                   last_command_time, control_loop_count, stopPc, eeg_is_connected,
                   is_reading, serial_open, latest_data, buf, decPc, pkt, pidx, mapper,
                   sock, is_connected, response, abort, state_running, listeners,
                   state_listeners, hs_attempt, inflight, state_sock, state_data,
                   response_lock, held, call, data_lock>>

\* send_command: "with self.response_lock:" entered
EmgAcquire ==
    /\ emgPc \in {"lock_clear", "lock_check"}
    /\ response_lock = NoneVal
    /\ response_lock' = "emg"
    /\ emgPc' = IF emgPc = "lock_clear" THEN "clear" ELSE "check"
    /\ UNCHANGED <<loop_delay, control_mode, auto_takeoff, pcMain, is_running,
                   shutdown_event, eeg, drone, attempt, to_attempt, now,
                   last_command_time, control_loop_count, stopPc, eeg_is_connected,
                   is_reading, serial_open, latest_data, buf, decPc, pkt, pidx, mapper,
                   sock, is_connected, response, abort, state_running, listeners,
                   state_listeners, hs_attempt, inflight, obs, state_sock, state_data,
                   held, call, data_lock>>

\* send_command: "self.response = None", and the with block left
EmgClear ==
    /\ emgPc = "clear"
    /\ response' = NoneVal
    /\ response_lock' = NoneVal
    /\ emgPc' = "send"
    /\ UNCHANGED <<loop_delay, control_mode, auto_takeoff, pcMain, is_running,
                   shutdown_event, eeg, drone, attempt, to_attempt, now,
                   last_command_time, control_loop_count, stopPc, eeg_is_connected,
                   is_reading, serial_open, latest_data, buf, decPc, pkt, pidx, mapper,
                   sock, is_connected, abort, state_running, listeners,
                   state_listeners, hs_attempt, inflight, obs, state_sock, state_data,
                   held, call, data_lock>>

\* send_command: socket.sendto; on a closed socket it raises OSError, which
\* leaves emergency()
EmgSend ==
    /\ emgPc = "send"
    /\ IF sock = "closed"
       THEN /\ emgPc' = "idle"
            /\ obs' = [obs EXCEPT !.emgResult = "error"]
            /\ UNCHANGED inflight
       ELSE /\ \E rep \in EmgReplies : inflight' = Append(inflight, rep)
            /\ emgPc' = "lock_check"
            /\ obs' = [obs EXCEPT !.emergencySent = TRUE]
    /\ UNCHANGED <<loop_delay, control_mode, auto_takeoff, pcMain, is_running,
                   shutdown_event, eeg, drone, attempt, to_attempt, now,
                   last_command_time, control_loop_count, stopPc, eeg_is_connected,
                   is_reading, serial_open, latest_data, buf, decPc, pkt, pidx, mapper,
                   sock, is_connected, response, abort, state_running, listeners,
                   state_listeners, hs_attempt, state_sock, state_data, response_lock,
                   held, call, data_lock>>

\* send_command: "if self.response: return self.response" inside the with
\* block; without a response the loop sleeps and polls again, until the
\* timeout has elapsed and None is returned
EmgCheck ==
    /\ emgPc = "check"
    /\ \E found \in {Truthy(response)} :
          /\ response_lock' = lock_after_check(found)
          /\ IF found
             THEN /\ emgPc' = "idle"
                  /\ obs' = [obs EXCEPT !.emgResult = "reply"]
             ELSE IF obs.emgPolls + 1 < MaxPolls
             THEN /\ emgPc' = "sleep"
                  /\ obs' = [obs EXCEPT !.emgPolls = @ + 1]
             ELSE /\ emgPc' = "idle"
                  /\ obs' = [obs EXCEPT !.emgResult = "timeout"]
    /\ UNCHANGED <<loop_delay, control_mode, auto_takeoff, pcMain, is_running,
                   shutdown_event, eeg, drone, attempt, to_attempt, now,
                   last_command_time, control_loop_count, stopPc, eeg_is_connected,
                   is_reading, serial_open, latest_data, buf, decPc, pkt, pidx, mapper,
                   sock, is_connected, response, abort, state_running, listeners,
                   state_listeners, hs_attempt, inflight, state_sock, state_data, held,
                   call, data_lock>>

\* send_command: time.sleep(0.01) ends
EmgSleep ==
    /\ emgPc = "sleep"
    /\ emgPc' = "lock_check"
    /\ UNCHANGED <<loop_delay, control_mode, auto_takeoff, pcMain, is_running,
                   shutdown_event, eeg, drone, attempt, to_attempt, now,
                   last_command_time, control_loop_count, stopPc, eeg_is_connected,
                   is_reading, serial_open, latest_data, buf, decPc, pkt, pidx, mapper,
                   sock, is_connected, response, abort, state_running, listeners,
                   state_listeners, hs_attempt, inflight, obs, state_sock, state_data,
                   response_lock, held, call, data_lock>>

EmgSteps == EmgAcquire \/ EmgClear \/ EmgSend \/ EmgCheck \/ EmgSleep

MainStopSteps ==
    \/ StopBegin("main") \/ StopLandSend("main") \/ StopLandResult("main")
    \/ StopDisconnect("main") \/ StopJoin("main")
    \/ StopEeg("main") \/ StopEegClose("main") \/ StopReturn("main")

\* The program as config.py configures it, the headset silent, with a thread
\* that calls emergency() while stop() runs
NextEmergency ==
    \/ PunctualSteps
    \/ SignalHandler
    \/ MainStopSteps
    \/ ReceiveResponse \/ ListenerExits
    \/ EmgCall \/ EmgSteps

\* The threads keep running: none is suspended for ever
SpecEmergency ==
    /\ InitStop /\ [][NextEmergency]_vars
    /\ WF_vars(EmgSteps) /\ WF_vars(MainStopSteps) /\ WF_vars(ListenerExits)

(***************************************************************************)
(* eeg_interface.py: the read thread inside _read_packet                   *)
(***************************************************************************)
\* Mutant: the read loop does not look at its flags
reader_continues_always(reading, connected) == TRUE

\* _read_loop: "while self.is_reading and self.is_connected"
reader_continues(reading, connected) == reading /\ connected

\* _read_packet, the loop that waits for the sync bytes: a read(1) returned a
\* byte that is not part of a sync pair, and the loop reads again; is_reading
\* is not looked at inside _read_packet
SensorNoise ==
    /\ pcMain \in LoopPcs \cup {"stop"}
    /\ decPc \in {"read", "sync"}
    /\ serial_open
    /\ decPc = "read" => reader_continues(is_reading, eeg_is_connected)
    /\ decPc' = "sync"
    /\ obs' = [obs EXCEPT !.staleRead = @ \/ (decPc = "sync" /\ ~is_reading)]
    /\ <<decPc', obs'>> # <<decPc, obs>>
    /\ UNCHANGED <<loop_delay, control_mode, auto_takeoff, pcMain, is_running,
                   shutdown_event, eeg, drone, attempt, to_attempt, now,
                   last_command_time, control_loop_count, stopPc, eeg_is_connected,
                   is_reading, serial_open, latest_data, buf, pkt, pidx, mapper, sock,
                   is_connected, response, abort, state_running, listeners,
                   state_listeners, hs_attempt, inflight, state_sock, state_data,
                   response_lock, emgPc, held, call, data_lock>>

\* _read_packet: a read timed out after 1 s with no byte, and _read_packet
\* returned None to the loop test of _read_loop
ReaderTimeout ==
    /\ decPc = "sync" /\ serial_open
    /\ decPc' = "read"
    /\ UNCHANGED <<loop_delay, control_mode, auto_takeoff, pcMain, is_running,
                   shutdown_event, eeg, drone, attempt, to_attempt, now,
                   last_command_time, control_loop_count, stopPc, eeg_is_connected,
                   is_reading, serial_open, latest_data, buf, pkt, pidx, mapper, sock,
                   is_connected, response, abort, state_running, listeners,
                   state_listeners, hs_attempt, inflight, obs, state_sock, state_data,
                   response_lock, emgPc, held, call, data_lock>>

\* _read_packet: the port was closed by disconnect(): the read raises, the
\* except clause returns None to the loop test of _read_loop
ReaderClosed ==
    /\ decPc = "sync" /\ ~serial_open
    /\ decPc' = "read"
    /\ UNCHANGED <<loop_delay, control_mode, auto_takeoff, pcMain, is_running,
                   shutdown_event, eeg, drone, attempt, to_attempt, now,
                   last_command_time, control_loop_count, stopPc, eeg_is_connected,
                   is_reading, serial_open, latest_data, buf, pkt, pidx, mapper, sock,
                   is_connected, response, abort, state_running, listeners,
                   state_listeners, hs_attempt, inflight, obs, state_sock, state_data,
                   response_lock, emgPc, held, call, data_lock>>

\* _read_loop: the loop test fails and the thread ends
ReaderExit ==
    /\ decPc = "read"
    /\ ~reader_continues(is_reading, eeg_is_connected)
    /\ decPc' = "dead"
    /\ UNCHANGED <<loop_delay, control_mode, auto_takeoff, pcMain, is_running,
                   shutdown_event, eeg, drone, attempt, to_attempt, now,
                   last_command_time, control_loop_count, stopPc, eeg_is_connected,
                   is_reading, serial_open, latest_data, buf, pkt, pidx, mapper, sock,
                   is_connected, response, abort, state_running, listeners,
                   state_listeners, hs_attempt, inflight, obs, state_sock, state_data,
                   response_lock, emgPc, held, call, data_lock>>

(***************************************************************************)
(* The program as config.py configures it, with all its threads, each of   *)
(* which keeps being scheduled                                             *)
(***************************************************************************)
NextShutdown ==
    \/ PunctualSteps
    \/ SignalHandler
    \/ MainStopSteps
    \/ ReceiveResponse \/ ListenerExits
    \/ SensorFrame \/ SensorNoise \/ ReaderTimeout \/ ReaderClosed \/ ReaderExit

SpecShutdown ==
    /\ InitStop /\ [][NextShutdown]_vars
    /\ WF_vars(PunctualSteps \/ MainStopSteps)
    /\ WF_vars(ListenerExits)
    /\ WF_vars(ReaderClosed \/ ReaderExit)

(***************************************************************************)
(* tello_controller.py: connect() and then takeoff() called on a           *)
(* controller, send_command step by step, and replies of the drone that    *)
(* stay on their way until the listener receives them                      *)
(***************************************************************************)
\* What the drone sends back for a command; NoneVal: nothing, or a datagram
\* that is lost
RepliesTo(command) ==
    IF command = "command" THEN HsReplies \cup {NoneVal} ELSE FlightReplies \cup {NoneVal}

\* A datagram in flight: the text, and the command it answers
Datagram(text, command) == <<text, command>>

\* Mutant: send_command leaves the stored response as it is
cleared_response_kept(r) == r

\* send_command: "self.response = None"
cleared_response(r) == NoneVal

\* Mutant: takeoff() makes one attempt more than range(3)
takeoff_again_off_by_one(k) == k + 1 < TAKEOFF_ATTEMPTS + 1

\* takeoff(): whether "for attempt in range(3)" has another attempt after attempt k
takeoff_again(k) == k + 1 < TAKEOFF_ATTEMPTS

\* send_command(command) is entered
BeginCall(command) ==
    [command |-> command, pc |-> "clear", polls |-> 0, ret |-> NoneVal,
     answers |-> "none", fresh |-> FALSE]

\* send_command has returned or raised
CallEnded == call.pc \in {"returned", "raised"}

\* send_command: "with self.response_lock: self.response = None"
SendCommandClear ==
    /\ call.pc = "clear"
    /\ response_lock = NoneVal
    /\ \E r \in {cleared_response(response)} :
          /\ response' = r
          /\ obs' = [obs EXCEPT !.storedSince = FALSE,
                                !.responseTo = IF r = NoneVal THEN "none" ELSE @]
    /\ call' = [call EXCEPT !.pc = "send"]
    /\ UNCHANGED <<loop_delay, control_mode, auto_takeoff, pcMain, is_running,
                   shutdown_event, eeg, drone, attempt, to_attempt, now,
                   last_command_time, control_loop_count, stopPc, eeg_is_connected,
                   is_reading, serial_open, latest_data, buf, decPc, pkt, pidx, mapper,
                   sock, is_connected, abort, state_running, listeners,
                   state_listeners, hs_attempt, inflight, state_sock, state_data,
                   response_lock, emgPc, held, data_lock>>

\* send_command: socket.sendto; it raises OSError when the network is
\* unreachable; otherwise the datagram leaves and the drone answers or not
SendCommandSend ==
    /\ call.pc = "send"
    /\ \E outcome \in {"sent", "OSError"} :
          IF outcome = "OSError"
          THEN /\ call' = [call EXCEPT !.pc = "raised"]
               /\ UNCHANGED <<inflight, obs>>
          ELSE /\ \E rep \in RepliesTo(call.command) :
                     /\ rep # NoneVal => Len(inflight) < MaxInFlight
                     /\ inflight' = IF rep = NoneVal THEN inflight
                                    ELSE Append(inflight, Datagram(rep, call.command))
               /\ call' = [call EXCEPT !.pc = "poll"]
               /\ obs' = [obs EXCEPT
                            !.hsSent = IF pcMain = "hs_call" THEN @ + 1 ELSE @,
                            !.toSent = IF call.command = "takeoff" THEN @ + 1 ELSE @,
                            !.wakeSent = IF pcMain = "wake_call" THEN @ + 1 ELSE @,
                            !.sentAfterReturn = @ \/ obs.takeoffRet # "none"]
    /\ UNCHANGED <<loop_delay, control_mode, auto_takeoff, pcMain, is_running,
                   shutdown_event, eeg, drone, attempt, to_attempt, now,
                   last_command_time, control_loop_count, stopPc, eeg_is_connected,
                   is_reading, serial_open, latest_data, buf, decPc, pkt, pidx, mapper,
                   sock, is_connected, response, abort, state_running, listeners,
                   state_listeners, hs_attempt, state_sock, state_data, response_lock,
                   emgPc, held, data_lock>>

\* send_command: the loop test holds (the timeout has not elapsed), and
\* "with self.response_lock: if self.response: return self.response";
\* without a response the thread sleeps 0.01 s and tests again
SendCommandPoll ==
    /\ call.pc = "poll"
    /\ call.polls < MaxPolls
    /\ response_lock = NoneVal
    /\ IF Truthy(response)
       THEN call' = [call EXCEPT !.pc = "returned", !.ret = response,
                                 !.answers = obs.responseTo, !.fresh = obs.storedSince]
       ELSE call' = [call EXCEPT !.polls = @ + 1]
    /\ UNCHANGED <<loop_delay, control_mode, auto_takeoff, pcMain, is_running,
                   shutdown_event, eeg, drone, attempt, to_attempt, now,
                   last_command_time, control_loop_count, stopPc, eeg_is_connected,
                   is_reading, serial_open, latest_data, buf, decPc, pkt, pidx, mapper,
                   sock, is_connected, response, abort, state_running, listeners,
                   state_listeners, hs_attempt, inflight, obs, state_sock, state_data,
                   response_lock, emgPc, held, data_lock>>

\* send_command: the loop test fails (the timeout has elapsed): "return None"
SendCommandTimeout ==
    /\ call.pc = "poll"
    /\ call.polls = MaxPolls
    /\ call' = [call EXCEPT !.pc = "returned", !.ret = NoneVal]
    /\ UNCHANGED <<loop_delay, control_mode, auto_takeoff, pcMain, is_running,
                   shutdown_event, eeg, drone, attempt, to_attempt, now,
                   last_command_time, control_loop_count, stopPc, eeg_is_connected,
                   is_reading, serial_open, latest_data, buf, decPc, pkt, pidx, mapper,
                   sock, is_connected, response, abort, state_running, listeners,
                   state_listeners, hs_attempt, inflight, obs, state_sock, state_data,
                   response_lock, emgPc, held, data_lock>>

SendCommandSteps ==
    SendCommandClear \/ SendCommandSend \/ SendCommandPoll \/ SendCommandTimeout

\* _receive_response: one datagram received, decoded and stored under the lock
ReceiveReply ==
    /\ listeners > 0 /\ ~abort /\ sock = "open"
    /\ response_lock = NoneVal
    /\ inflight # <<>>
    /\ response' = Head(inflight)[1]
    /\ inflight' = Tail(inflight)
    /\ obs' = [obs EXCEPT !.storedSince = TRUE, !.responseTo = Head(inflight)[2]]
    /\ UNCHANGED <<loop_delay, control_mode, auto_takeoff, pcMain, is_running,
                   shutdown_event, eeg, drone, attempt, to_attempt, now,
                   last_command_time, control_loop_count, stopPc, eeg_is_connected,
                   is_reading, serial_open, latest_data, buf, decPc, pkt, pidx, mapper,
                   sock, is_connected, abort, state_running, listeners,
                   state_listeners, hs_attempt, state_sock, state_data, response_lock,
                   emgPc, held, call, data_lock>>

\* connect(): an attempt of the handshake loop calls send_command("command")
ConnectAttempt ==
    /\ pcMain = "hs_send" /\ call.pc = "none"
    /\ call' = BeginCall("command")
    /\ pcMain' = "hs_call"
    /\ UNCHANGED <<loop_delay, control_mode, auto_takeoff, is_running, shutdown_event,
                   eeg, drone, attempt, to_attempt, now, last_command_time,
                   control_loop_count, stopPc, eeg_is_connected, is_reading,
                   serial_open, latest_data, buf, decPc, pkt, pidx, mapper, sock,
                   is_connected, response, abort, state_running, listeners,
                   state_listeners, hs_attempt, inflight, obs, state_sock, state_data,
                   response_lock, emgPc, held, data_lock>>

\* connect(): send_command returned: the affirmative reply sets the flag,
\* starts the state receiver and returns True; another one goes to the next
\* attempt or returns False; an exception is caught and returns False
ConnectResult ==
    /\ pcMain = "hs_call" /\ CallEnded
    /\ \E r \in {call.ret} :
       \E ok \in {call.pc = "returned" /\ handshake_ok(r)} :
       \E again \in {call.pc = "returned" /\ ~ok /\ more_attempts(hs_attempt)} :
          /\ IF ok
             THEN /\ is_connected' = TRUE
                  /\ state_sock' = "open"
                  /\ state_running' = TRUE /\ state_listeners' = 1
             ELSE UNCHANGED <<is_connected, state_sock, state_running, state_listeners>>
          /\ hs_attempt' = IF again THEN hs_attempt + 1 ELSE 0
          /\ pcMain' = IF ok THEN "takeoff_send" ELSE IF again THEN "hs_send" ELSE "returned"
          /\ obs' = [obs EXCEPT
                       !.connectRet = IF ok THEN "True" ELSE IF again THEN @ ELSE "False"]
    /\ call' = NoCall
    /\ UNCHANGED <<loop_delay, control_mode, auto_takeoff, is_running, shutdown_event,
                   eeg, drone, attempt, to_attempt, now, last_command_time,
                   control_loop_count, stopPc, eeg_is_connected, is_reading,
                   serial_open, latest_data, buf, decPc, pkt, pidx, mapper, sock,
                   response, abort, listeners, inflight, state_data, response_lock,
                   emgPc, held, data_lock>>

\* takeoff(): an attempt calls send_command("takeoff")
TakeoffAttempt ==
    /\ pcMain = "takeoff_send" /\ call.pc = "none"
    /\ call' = BeginCall("takeoff")
    /\ pcMain' = "takeoff_call"
    /\ UNCHANGED <<loop_delay, control_mode, auto_takeoff, is_running, shutdown_event,
                   eeg, drone, attempt, to_attempt, now, last_command_time,
                   control_loop_count, stopPc, eeg_is_connected, is_reading,
                   serial_open, latest_data, buf, decPc, pkt, pidx, mapper, sock,
                   is_connected, response, abort, state_running, listeners,
                   state_listeners, hs_attempt, inflight, obs, state_sock, state_data,
                   response_lock, emgPc, held, data_lock>>

\* takeoff(): "if response == "ok": return True", else the next attempt, and
\* False after the last; an exception of send_command leaves takeoff()
TakeoffAttemptResult ==
    /\ pcMain = "takeoff_call" /\ CallEnded
    /\ \E ok \in {call.pc = "returned" /\ call.ret = "ok"} :
       \E again \in {call.pc = "returned" /\ ~ok /\ takeoff_again(to_attempt)} :
          /\ to_attempt' = IF again THEN to_attempt + 1 ELSE 0
          /\ pcMain' = IF again THEN "wake_send" ELSE "returned"
          /\ obs' = [obs EXCEPT
                       !.takeoffRet = IF call.pc = "raised" THEN "raised"
                                      ELSE IF ok THEN "True"
                                      ELSE IF again THEN @ ELSE "False"]
    /\ call' = NoCall
    /\ UNCHANGED <<loop_delay, control_mode, auto_takeoff, is_running, shutdown_event,
                   eeg, drone, attempt, now, last_command_time, control_loop_count,
                   stopPc, eeg_is_connected, is_reading, serial_open, latest_data, buf,
                   decPc, pkt, pidx, mapper, sock, is_connected, response, abort,
                   state_running, listeners, state_listeners, hs_attempt, inflight,
                   state_sock, state_data, response_lock, emgPc, held, data_lock>>

\* takeoff(): "if attempt > 0: self.send_command("command", timeout=3)"
WakeAttempt ==
    /\ pcMain = "wake_send" /\ call.pc = "none"
    /\ call' = BeginCall("command")
    /\ pcMain' = "wake_call"
    /\ UNCHANGED <<loop_delay, control_mode, auto_takeoff, is_running, shutdown_event,
                   eeg, drone, attempt, to_attempt, now, last_command_time,
                   control_loop_count, stopPc, eeg_is_connected, is_reading,
                   serial_open, latest_data, buf, decPc, pkt, pidx, mapper, sock,
                   is_connected, response, abort, state_running, listeners,
                   state_listeners, hs_attempt, inflight, obs, state_sock, state_data,
                   response_lock, emgPc, held, data_lock>>

\* takeoff(): the value send_command("command") returned is dropped, an
\* exception leaves takeoff(); then time.sleep(1) and the attempt
WakeResult ==
    /\ pcMain = "wake_call" /\ CallEnded
    /\ pcMain' = IF call.pc = "raised" THEN "returned" ELSE "takeoff_send"
    /\ to_attempt' = IF call.pc = "raised" THEN 0 ELSE to_attempt
    /\ obs' = [obs EXCEPT !.takeoffRet = IF call.pc = "raised" THEN "raised" ELSE @]
    /\ call' = NoCall
    /\ UNCHANGED <<loop_delay, control_mode, auto_takeoff, is_running, shutdown_event,
                   eeg, drone, attempt, now, last_command_time, control_loop_count,
                   stopPc, eeg_is_connected, is_reading, serial_open, latest_data, buf,
                   decPc, pkt, pidx, mapper, sock, is_connected, response, abort,
                   state_running, listeners, state_listeners, hs_attempt, inflight,
                   state_sock, state_data, response_lock, emgPc, held, data_lock>>

\* The thread that calls drone.connect() and, when it returned True,
\* drone.takeoff()
CommandCallerSteps ==
    \/ ConnectOpen \/ ConnectAttempt \/ ConnectResult
    \/ TakeoffAttempt \/ TakeoffAttemptResult \/ WakeAttempt \/ WakeResult
    \/ SendCommandSteps

\* The state after TelloController(): the command socket bound, not connected
InitCommands ==
    /\ loop_delay = LOOP_DELAY /\ auto_takeoff = AUTO_TAKEOFF
    /\ LinkExtraInit
    /\ control_mode = CONTROL_MODE
    /\ pcMain = "connect" /\ is_running = FALSE /\ shutdown_event = FALSE
    /\ eeg = NoneVal /\ drone = "obj" /\ attempt = 0 /\ to_attempt = 0
    /\ now = 0 /\ last_command_time = 0 /\ control_loop_count = 0
    /\ stopPc = [t \in Threads |-> "idle"]
    /\ eeg_is_connected = FALSE /\ is_reading = FALSE /\ serial_open = FALSE
    /\ latest_data = latest_data_init /\ buf = <<>> /\ decPc = "off"
    /\ pkt = <<>> /\ pidx = 1
    /\ mapper = MapperInit
    /\ sock = "open" /\ is_connected = FALSE /\ response = NoneVal
    /\ abort = FALSE /\ state_running = FALSE /\ listeners = 0
    /\ state_listeners = 0 /\ hs_attempt = 0
    /\ inflight = <<>>
    /\ obs = ObsInit

NextCommands == CommandCallerSteps \/ ReceiveReply

\* The calling thread keeps running
SpecCommands == InitCommands /\ [][NextCommands]_vars /\ WF_vars(CommandCallerSteps)

(***************************************************************************)
(* tello_controller.py: connect() called again on the same controller      *)
(***************************************************************************)
\* The thread calls drone.connect() once more after connect() has returned,
\* True or False
ConnectAgain ==
    /\ pcMain \in {"takeoff_send", "returned"} /\ call.pc = "none"
    /\ obs.reconnects < MaxReconnects
    /\ pcMain' = "connect"
    /\ obs' = [obs EXCEPT !.reconnects = @ + 1]
    /\ UNCHANGED <<loop_delay, control_mode, auto_takeoff, is_running, shutdown_event,
                   eeg, drone, attempt, to_attempt, now, last_command_time,
                   control_loop_count, stopPc, eeg_is_connected, is_reading,
                   serial_open, latest_data, buf, decPc, pkt, pidx, mapper, sock,
                   is_connected, response, abort, state_running, listeners,
                   state_listeners, hs_attempt, inflight, state_sock, state_data,
                   response_lock, emgPc, held, call, data_lock>>

NextReconnect ==
    \/ ConnectOpen \/ ConnectAttempt \/ ConnectResult \/ ConnectAgain
    \/ SendCommandSteps \/ ReceiveReply

SpecReconnect == InitCommands /\ [][NextReconnect]_vars

(***************************************************************************)
(* The program as config.py configures it, up to and in the control loop,  *)
(* with a headset that reports attention and meditation                    *)
(***************************************************************************)
SmoothingPayloads ==
    { <<CODE_POOR_SIGNAL, 0, CODE_ATTENTION, 50, CODE_MEDITATION, 50>>,
      <<CODE_POOR_SIGNAL, 25, CODE_ATTENTION, 100, CODE_MEDITATION, 0>>,
      <<CODE_POOR_SIGNAL, 200>> }

SensorSamples == SensorFrameWith(SmoothingPayloads)

NextSmoothing == PunctualSteps \/ ReceiveResponse \/ SensorSamples

\* The tick delay of config.py, and one shorter than the command interval
InitSmoothing ==
    /\ BaseInit
    /\ loop_delay \in {LOOP_DELAY, 1} /\ auto_takeoff = AUTO_TAKEOFF

SpecSmoothing == InitSmoothing /\ [][NextSmoothing]_vars

(***************************************************************************)
(* The program as config.py configures it, with a headset that reports     *)
(* signal qualities around the threshold                                   *)
(***************************************************************************)
GateQualities == { 0, MAX_POOR_SIGNAL - 1, MAX_POOR_SIGNAL, MAX_POOR_SIGNAL + 1, NO_SIGNAL }
GatePayloads == { <<CODE_POOR_SIGNAL, v>> : v \in GateQualities }

GateSamples == SensorFrameWith(GatePayloads)

NextGate == PunctualSteps \/ ReceiveResponse \/ GateSamples

SpecGate == InitStop /\ [][NextGate]_vars

(***************************************************************************)
(* eeg_interface.py: the band-power block stored field by field under      *)
(* data_lock, while callers take snapshots                                 *)
(***************************************************************************)
\* The assignments inside "with self.data_lock:" of the band-power branch, in
\* their order, and the index in the list bands each one reads (0: the
\* combined alpha, computed from bands[2] and bands[3])
BandOrder ==
    <<"delta", "theta", "low_alpha", "high_alpha", "alpha", "low_beta", "high_beta",
      "low_gamma", "mid_gamma">>
BandIndex == <<1, 2, 3, 4, 0, 5, 6, 7, 8>>

\* The list bands built from the 24 bytes that start at index j
bands_at(payload, j) == [k \in 1..8 |-> band_value(payload, j + 3 * (k - 1))]

\* Whether the entry at index i is a band-power entry with its 24 bytes
band_entry_at(payload, i) ==
    \E c \in {skip_excode(payload, i)} :
        /\ c <= Len(payload) /\ payload[c] = CODE_ASIC_EEG_POWER
        /\ c + 24 <= Len(payload)

SnapshotVectors == { <<1, 2, 3, 4, 5, 6, 7, 8>>, <<11, 12, 13, 16, 15, 16777215, 17, 18>> }
SnapshotPayloads ==
    { band_payload(v) : v \in SnapshotVectors }
    \cup { <<CODE_ATTENTION, 50>> \o band_payload(<<1, 2, 3, 4, 5, 6, 7, 8>>) }

SnapshotHeadset == HeadsetSend(SnapshotPayloads, {FALSE}, MaxDecFrames)

\* _parse_packet: an entry other than a band-power block, stored under the lock
ParseOther ==
    /\ decPc = "parse" /\ ~band_entry_at(pkt, pidx)
    /\ lock_free(data_lock)
    /\ DecParse

\* _parse_packet: the list bands is built and the read thread enters
\* "with self.data_lock:" of the band-power branch
BandAcquire ==
    /\ decPc = "parse" /\ band_entry_at(pkt, pidx)
    /\ lock_free(data_lock)
    /\ data_lock' = "read_thread"
    /\ decPc' = BandOrder[1]
    /\ UNCHANGED <<loop_delay, control_mode, auto_takeoff, pcMain, is_running,
                   shutdown_event, eeg, drone, attempt, to_attempt, now,
                   last_command_time, control_loop_count, stopPc, eeg_is_connected,
                   is_reading, serial_open, latest_data, buf, pkt, pidx, mapper, sock,
                   is_connected, response, abort, state_running, listeners,
                   state_listeners, hs_attempt, inflight, obs, state_sock, state_data,
                   response_lock, emgPc, held, call>>

\* One assignment of the block; after the last one the lock is released and
\* the loop of _parse_packet goes on behind the 24 bytes
BandStore ==
    /\ data_lock = "read_thread"
    /\ \E k \in DOMAIN BandOrder :
       \E j \in {skip_excode(pkt, pidx) + 1} :
       \E bands \in {bands_at(pkt, j)} :
          /\ decPc = BandOrder[k]
          /\ latest_data' = [latest_data EXCEPT
                               ![BandOrder[k]] = IF BandIndex[k] = 0
                                                 THEN (bands[3] + bands[4]) \div 2
                                                 ELSE bands[BandIndex[k]]]
          /\ IF k < Len(BandOrder)
             THEN /\ decPc' = BandOrder[k + 1]
                  /\ UNCHANGED <<data_lock, pkt, pidx>>
             ELSE /\ data_lock' = NoneVal
                  /\ IF j + 24 > Len(pkt)
                     THEN pkt' = <<>> /\ pidx' = 1 /\ decPc' = "read"
                     ELSE pkt' = pkt /\ pidx' = j + 24 /\ decPc' = "parse"
    /\ UNCHANGED <<loop_delay, control_mode, auto_takeoff, pcMain, is_running,
                   shutdown_event, eeg, drone, attempt, to_attempt, now,
                   last_command_time, control_loop_count, stopPc, eeg_is_connected,
                   is_reading, serial_open, buf, mapper, sock, is_connected, response,
                   abort, state_running, listeners, state_listeners, hs_attempt,
                   inflight, obs, state_sock, state_data, response_lock, emgPc, held,
                   call>>

NextSnapshots ==
    SnapshotHeadset \/ DecRead \/ ParseOther \/ BandAcquire \/ BandStore \/ ReadData

SpecSnapshots == InitDecoder /\ [][NextSnapshots]_vars

(***************************************************************************)
(* C1: if no handshake attempt of the run is answered affirmatively (every *)
(* attempt of every connect() call that initialize() makes gets an error   *)
(* reply or no reply before the timeout), then connect() returns failure   *)
(* once its 3 attempts are spent, the connection flag stays false, and no  *)
(* "rc" and no "takeoff" command is transmitted in the run.                *)
(***************************************************************************)
C1_HandshakeExhausted ==
    ~obs.okReturned
    => (/\ ~is_connected /\ ~state_running
        /\ obs.connectRet # "True"
        /\ obs.rcCount = 0 /\ ~obs.takeoffSent
        /\ (obs.hsSent = HANDSHAKE_ATTEMPTS /\ pcMain # "hs_wait")
           => obs.connectRet = "False")

\* start() has returned after the last connect() spent its 3 attempts
C1_Witness ==
    /\ pcMain = "returned" /\ drone # NoneVal
    /\ ~obs.okReturned /\ obs.failedCalls > 0
    /\ obs.hsSent = HANDSHAKE_ATTEMPTS /\ obs.connectRet = "False"

\* C1 as stated: once one connect() call had all 3 of its attempts answered by
\* an error reply or by no reply, the run transmits no "rc" and no "takeoff"
C1_Original ==
    obs.failedCalls > 0 => (obs.rcCount = 0 /\ ~obs.takeoffSent)

(***************************************************************************)
(* C2: a connect() call transmits "command" at most 3 times; when the      *)
(* wait of an attempt ends with the affirmative reply, connect() returns   *)
(* True with the connection flag set; after that success no further        *)
(* handshake command is sent; and the state (telemetry) listener is        *)
(* started only by a step that has the affirmative reply in hand.          *)
(***************************************************************************)
C2_Step ==
    /\ obs'.hsSent <= HANDSHAKE_ATTEMPTS
    /\ (pcMain = "hs_wait" /\ pcMain' # "hs_wait" /\ response \in {"ok", "OK"})
       => (/\ is_connected' /\ obs'.connectRet = "True"
           /\ pcMain' = "battery_send" /\ state_running')
    /\ obs.connectRet = "True" => obs'.hsSent = obs.hsSent
    /\ (state_running' /\ ~state_running)
       => (pcMain = "hs_wait" /\ response \in {"ok", "OK"} /\ is_connected')

C2_HandshakeBudget == [][C2_Step]_vars

\* The affirmative reply came on attempt 2 of 3
C2_Witness ==
    /\ obs.connectRet = "True" /\ obs.hsSent = 2 /\ obs.failedCalls = 0
    /\ is_connected /\ state_listeners > 0

C4_Step ==
    (pcMain = "tick" /\ pcMain' # "tick" /\ latest_data.signal_quality > MAX_POOR_SIGNAL)
    => (/\ obs'.rcCount = obs.rcCount /\ obs'.rcLast = obs.rcLast
        /\ obs'.lastRc = obs.lastRc
        /\ inflight' = inflight /\ response' = response
        /\ obs'.landSent = obs.landSent /\ obs'.takeoffSent = obs.takeoffSent
        /\ mapper' = mapper /\ last_command_time' = last_command_time
        /\ pcMain' = "sleep")

C4_PoorSignalSuppressed == [][C4_Step]_vars

\* A suppressed tick after a tick that transmitted
C4_Witness ==
    /\ pcMain = "sleep" /\ obs.tickLast # NoRecord
    /\ obs.tickLast.sq > MAX_POOR_SIGNAL
    /\ obs.rcCount > 0 /\ obs.rcCount = obs.tickLast.rcCount
    /\ obs.rcLast < obs.tickLast.t

(***************************************************************************)
(* C5: when the ticks have seen signal_quality above MAX_POOR_SIGNAL       *)
(* without interruption for longer than AUTO_LAND_ON_POOR_SIGNAL_TIMEOUT,  *)
(* a "land" command has been issued by the time the loop suppresses again. *)
(***************************************************************************)
C5_AutoLand ==
    (/\ obs.tickLast # NoRecord /\ obs.tickLast.sq > MAX_POOR_SIGNAL
     /\ obs.poorStart # -1
     /\ obs.tickLast.t - obs.poorStart > AUTO_LAND_ON_POOR_SIGNAL_TIMEOUT)
    => obs.landSent

(***************************************************************************)
(* C9: stop() raises nothing to its caller, whatever exists and whatever   *)
(* is connected; and whenever a call of stop() returns that start() did    *)
(* not run beside (start() had not begun, or had returned, when the call   *)
(* began; or the call is the one start() makes itself), the loop is not    *)
(* running, the link is disconnected with its socket closed, and the       *)
(* sensor is disconnected: the same for a first call and for a call after  *)
(* a completed stop().                                                     *)
(***************************************************************************)
C9_Step ==
    \A t \in Threads :
       /\ stopPc'[t] # "raised"
       /\ (/\ stopPc[t] = "done" /\ stopPc'[t] = "idle"
           /\ (t = "main"
               \/ (pcMain \in {"start", "returned"} /\ obs.stopFrom = pcMain)))
          => (/\ ~is_running' /\ ~is_connected' /\ ~state_running'
              /\ sock' = "closed" /\ ~eeg_is_connected' /\ ~is_reading')

C9_StopIdempotent == [][C9_Step]_vars

\* A second stop() after a completed one: its land() raised on the closed
\* socket, and it returned
C9_Witness ==
    /\ obs.repeated /\ obs.stopsDone = 2 /\ obs.landRaised
    /\ \A t \in Threads : stopPc[t] = "idle"
    /\ pcMain = "returned" /\ drone # NoneVal

(***************************************************************************)
(* C10: after stop() has been invoked on the running loop, no "rc" command *)
(* is transmitted, also when stop() is invoked by another thread while the *)
(* loop is in the middle of a tick.                                        *)
(***************************************************************************)
C10_NoRcAfterStop == ~obs.rcAfterStop


(***************************************************************************)
(* C11: every call of disconnect() on the actuator link, on a link that    *)
(* was never connected and on one already disconnected, raises nothing,    *)
(* and when it returns the connection flag is false, both listener stop    *)
(* flags are set (abort true, state_running false) and the command and     *)
(* state sockets are closed.                                               *)
(***************************************************************************)
C11_Step ==
    \A t \in Threads :
       (stopPc[t] = "disconnect" /\ stopPc'[t] # "disconnect")
       => (/\ ~obs'.disconnectRaised
           /\ ~is_connected' /\ abort' /\ ~state_running'
           /\ sock' = "closed" /\ state_sock' # "open")

C11_DisconnectIdempotent == [][C11_Step]_vars

\* A second disconnect() has returned on the link the first one closed
C11_Witness ==
    /\ obs.disconnects = 2 /\ ~obs.disconnectRaised
    /\ \A t \in Threads : stopPc[t] \notin {"land_send", "land_wait", "disconnect"}
    /\ sock = "closed" /\ ~is_connected /\ abort

(***************************************************************************)
(* C12: every call of disconnect() tries to send "emergency" before it     *)
(* closes the command socket, whether or not the link was connected.       *)
(***************************************************************************)
C12_EmergencyAlways == ~obs.emergencyMissed

(***************************************************************************)
(* C14: when the sensor channel could not be opened at startup, start()    *)
(* sends no handshake to the actuator, sends no takeoff, never enters the  *)
(* tick loop, and no "rc" command is transmitted.                          *)
(***************************************************************************)
C14_SensorOpenFailureFatal ==
    obs.sensorOpenFailed
    => (/\ pcMain \notin {"connect", "hs_send", "hs_wait"} \cup LoopPcs
        /\ ~obs.okReturned /\ ~obs.takeoffSent /\ obs.rcCount = 0)

(***************************************************************************)
(* C15: whenever start() has returned, on the paths where initialize()     *)
(* failed too, a "land" was attempted on the link if one was created, the  *)
(* link is disconnected with its socket closed, and the sensor decoder is  *)
(* disconnected.                                                           *)
(***************************************************************************)
C15_CleanupOnEveryPath ==
    pcMain = "returned"
    => (/\ drone # NoneVal
           => (/\ obs.landSent \/ obs.landRaised
               /\ sock = "closed" /\ ~is_connected)
        /\ eeg # NoneVal => (~eeg_is_connected /\ ~serial_open /\ ~is_reading))

(***************************************************************************)
(* C19: an exception raised inside one pass of the loop body (reading the  *)
(* sample, mapping, transmitting) does not end the loop: the thread goes   *)
(* on to the sleep and the next loop test; the loop is left only at its    *)
(* test, when stop() has cleared is_running or the shutdown flag is set.   *)
(***************************************************************************)
C19_Step ==
    /\ pcMain = "tick" => pcMain' \in {"tick", "sleep"}
    /\ (pcMain \in LoopPcs /\ pcMain' \notin LoopPcs)
       => (pcMain = "loop_check" /\ (~is_running \/ shutdown_event))

C19_TickErrorsContained == [][C19_Step]_vars

\* The pass after one in which an exception was raised is about to run
C19_Witness ==
    /\ pcMain = "tick" /\ obs.faultTick > 0 /\ obs.faultTick = obs.ticks
    /\ is_running /\ ~shutdown_event

(***************************************************************************)
(* C16: while the loop runs, no "rc" command is transmitted on a tick at   *)
(* which the latest telemetry of the actuator breaks a configured safety   *)
(* limit (battery below MIN_BATTERY_LEVEL, height above MAX_HEIGHT).       *)
(***************************************************************************)
C16_SafetyLimitsEnforced == ~obs.rcUnsafe

(***************************************************************************)
(* C20: the mapping read_data() or get_state() returned is an independent  *)
(* copy: a step in which its holder does nothing (a write of the decoder   *)
(* or of the telemetry listener, or any other step) leaves what it shows   *)
(* unchanged, and a step in which a holder reads or writes its mapping     *)
(* leaves the sample store and the telemetry store unchanged.              *)
(***************************************************************************)
C20_Step ==
    /\ (held' = held /\ held.eeg # NoRecord)
       => Visible(held'.eeg, latest_data') = Visible(held.eeg, latest_data)
    /\ (held' = held /\ held.tel # NoRecord)
       => Visible(held'.tel, state_data') = Visible(held.tel, state_data)
    /\ held' # held => (latest_data' = latest_data /\ state_data' = state_data)

C20_IndependentCopies == [][C20_Step]_vars

\* Both stores were written after the reads, and both held mappings were
\* written by their holders: stores and mappings differ
C20_Witness ==
    /\ held.eeg # NoRecord /\ held.tel # NoRecord
    /\ held.eeg.value.attention = CallerAttention
    /\ latest_data.attention # CallerAttention
    /\ held.eeg.value.signal_quality # latest_data.signal_quality
    /\ held.tel.value # <<>> /\ state_data # <<>>
    /\ held.tel.value["bat"] = 0 /\ state_data["bat"] # 0

(***************************************************************************)
(* C13: emergency() called while stop() is in progress never deadlocks:    *)
(* the response lock is held by the emergency() thread only across the     *)
(* assignment or the test inside a with block, never across the send, the  *)
(* sleep or a wait; every emergency() call returns (with a reply, a        *)
(* timeout or a transport error); and the stop() in progress returns.      *)
(***************************************************************************)
C13_LockHeldBriefly == response_lock = "emg" => emgPc \in {"clear", "check"}

C13_NoDeadlock ==
    /\ []C13_LockHeldBriefly
    /\ (emgPc # "idle") ~> (emgPc = "idle" /\ obs.emgResult # "none")
    /\ (stopPc["main"] # "idle") ~> (pcMain = "returned")

\* emergency() holds the response lock while stop() waits for the answer to
\* "land"
C13_Witness ==
    /\ emgPc = "check" /\ response_lock = "emg"
    /\ stopPc["main"] = "land_wait"

(***************************************************************************)
(* C18: once the shutdown flag is set, the loop leaves at its next test    *)
(* without another pass; and from then on start() returns through a        *)
(* completed stop(), both listener threads of the link have ended, and the *)
(* read thread of the sensor has ended.  The read thread tests its flag    *)
(* after each _read_packet call, not after each read: it ends at the       *)
(* latest when disconnect() has closed the port.                           *)
(***************************************************************************)
C18_ExitStep ==
    (shutdown_event /\ pcMain = "loop_check") => pcMain' \in {"loop_check", "finally"}

C18_AllStopped ==
    /\ pcMain = "returned" /\ stopPc["main"] = "idle"
    /\ listeners = 0 /\ state_listeners = 0
    /\ decPc \notin {"read", "sync"}

C18_ShutdownTerminates ==
    /\ [][C18_ExitStep]_vars
    /\ shutdown_event ~> C18_AllStopped

\* Everything has ended after a shutdown in which the read thread completed
\* a read with its flag cleared and read again
C18_Witness ==
    /\ shutdown_event /\ C18_AllStopped
    /\ obs.okReturned /\ decPc = "dead" /\ obs.staleRead

\* C18 as stated: the stop flag is re-checked after each blocking read; no
\* read of the sensor thread that ends with the flag cleared is followed by
\* another read
C18_Original == ~obs.staleRead

(***************************************************************************)
(* C21: takeoff() transmits "takeoff" at most 3 times; it returns True at  *)
(* the first attempt whose send_command returned "ok" and transmits        *)
(* nothing after it returned; before each attempt after the first it       *)
(* transmits "command" once; and it returns False exactly when the third   *)
(* attempt also returned something other than "ok".                        *)
(***************************************************************************)
C21_Step ==
    /\ obs'.toSent <= TAKEOFF_ATTEMPTS
    /\ obs'.toSent = obs.toSent + 1
       => (obs.wakeSent = obs.toSent /\ obs.takeoffRet = "none")
    /\ obs'.wakeSent = obs.wakeSent + 1
       => (obs.wakeSent + 1 = obs.toSent /\ obs.takeoffRet = "none")
    /\ (pcMain = "takeoff_call" /\ pcMain' # pcMain /\ call.pc = "returned")
       => /\ obs'.takeoffRet = "True" <=> call.ret = "ok"
          /\ obs'.takeoffRet = "False"
             <=> (call.ret # "ok" /\ obs.toSent = TAKEOFF_ATTEMPTS)
    /\ obs.takeoffRet # "none"
       => (/\ obs'.toSent = obs.toSent /\ obs'.wakeSent = obs.wakeSent
           /\ obs'.hsSent = obs.hsSent /\ obs'.takeoffRet = obs.takeoffRet)

C21_TakeoffRetries == [][C21_Step]_vars

\* takeoff() returned True at its second attempt, after one "command"
C21_Witness ==
    /\ obs.takeoffRet = "True" /\ obs.toSent = 2 /\ obs.wakeSent = 1
    /\ pcMain = "returned"

(***************************************************************************)
(* C26: send_command clears the stored response, then transmits the        *)
(* command, then polls; it returns a text only when a poll made before the *)
(* timeout finds one stored, and that text was stored by the listener      *)
(* after the clear; it returns None only when the timeout has elapsed; and *)
(* every call ends.                                                        *)
(***************************************************************************)
C26_Step ==
    /\ (call'.pc = "send" /\ call.pc # "send")
       => (call.pc = "clear" /\ response' = NoneVal)
    /\ (call'.pc = "poll" /\ call.pc # "poll")
       => call.pc = "send"
    /\ (call'.pc = "returned" /\ call.pc # "returned")
       => /\ call.pc = "poll"
          /\ IF Truthy(response) /\ call.polls < MaxPolls
             THEN call'.ret = response /\ call'.fresh
             ELSE call'.ret = NoneVal /\ call.polls = MaxPolls

C26_CallInProgress == call.pc \in {"clear", "send", "poll"}

C27_ReplyMatchesCommand ==
    (call.pc = "returned" /\ Truthy(call.ret)) => call.answers = call.command

(***************************************************************************)
(* C30: connect() sets the connection flag only when send_command          *)
(* returned exactly "ok", and an attempt whose send_command returned any   *)
(* other text leaves the flag unset.                                       *)
(***************************************************************************)
C30_Step ==
    /\ (is_connected' /\ ~is_connected) => call.ret = "ok"
    /\ (pcMain = "hs_call" /\ pcMain' # pcMain /\ call.ret # "ok") => ~is_connected'

C30_ExactOk == [][C30_Step]_vars

(***************************************************************************)
(* C22: in Mode 1, on a mapper with zero deadzones and the ranges of       *)
(* config.py (alpha 0..1000000, r in [0,100], theta in [-180,180], z in    *)
(* [0,100]), the inputs alpha = 500000, attention = 50, meditation = 50    *)
(* give (r, theta, z) = (50, 0, 50) and the velocity command (0, 0, 0, 0). *)
(***************************************************************************)
C22_EndToEnd ==
    (/\ obs.lastFrom = "map" /\ obs.lastIn = <<500000, 50, 50>>
     /\ control_mode = 1
     /\ mapper.r_deadzone = 0 /\ mapper.theta_deadzone = 0 /\ mapper.z_deadzone = 0)
    => (/\ obs.lastCyl = [r |-> RInt(50), theta |-> RInt(0), z |-> RInt(50)]
        /\ obs.lastVel = <<0, 0, 0, 0>>)

(***************************************************************************)
(* C25: apply_deadzone(value, center, deadzone) returns center when        *)
(* |value - center| < deadzone and value otherwise, so also exactly at the *)
(* edge and with deadzone = 0; the deadzone stage of the mapping uses the  *)
(* midpoint of the range as center for r and for z, and 0 for theta.       *)
(***************************************************************************)
\* What the claim expects for a value k halves away from center
C25_Expected(k, value, center, deadzone) ==
    IF Abs(k) < 2 * deadzone THEN center ELSE value

C25_DeadzoneBoundary ==
    /\ obs.dz # NoRecord
       => obs.dz.out = C25_Expected(obs.dz.k, obs.dz.value, obs.dz.center, obs.dz.deadzone)
    /\ obs.stage # NoRecord
       => /\ obs.stage.out.r = C25_Expected(obs.stage.k, obs.stage.r,
                                            Rat(R_MIN + R_MAX, 2), mapper.r_deadzone)
          /\ obs.stage.out.theta = C25_Expected(obs.stage.k, obs.stage.theta,
                                                RInt(0), mapper.theta_deadzone)
          /\ obs.stage.out.z = C25_Expected(obs.stage.k, obs.stage.z,
                                            Rat(Z_MIN + Z_MAX, 2), mapper.z_deadzone)

\* A value exactly at the edge of a deadzone came back unchanged, and the
\* stage snapped an r inside its deadzone to the midpoint
C25_Witness ==
    /\ obs.dz # NoRecord /\ obs.dz.deadzone > 0
    /\ Abs(obs.dz.k) = 2 * obs.dz.deadzone /\ obs.dz.out = obs.dz.value
    /\ obs.stage # NoRecord /\ mapper.r_deadzone > 0
    /\ obs.stage.r # obs.stage.out.r /\ obs.stage.out.r = RInt(50)

(***************************************************************************)
(* C23: is_signal_good() answers True for every stored signal_quality in   *)
(* 0..49 and False for every stored signal_quality in 50..200.             *)
(***************************************************************************)
C23_SignalClassified ==
    obs.good # NoRecord
    => (/\ obs.good.signal_quality \in 0..49 => obs.good.result
        /\ obs.good.signal_quality \in 50..200 => ~obs.good.result)

\* The stored value 50, decoded from a frame, was classified as poor
C23_Witness ==
    /\ obs.good # NoRecord /\ latest_data.signal_quality = 50
    /\ obs.good.signal_quality = 50 /\ ~obs.good.result

(***************************************************************************)
(* C24: eight integers in 0..2^24-1, encoded high byte first as the        *)
(* 24-byte block after code 0x83, are stored by the decoder as delta,      *)
(* theta, low_alpha, high_alpha, low_beta, high_beta, low_gamma and        *)
(* mid_gamma in that order, and alpha is stored as the integer average of  *)
(* low_alpha and high_alpha, rounded down: (low_alpha + high_alpha) // 2.  *)
(***************************************************************************)
StoredBands ==
    <<latest_data.delta, latest_data.theta, latest_data.low_alpha, latest_data.high_alpha,
      latest_data.low_beta, latest_data.high_beta, latest_data.low_gamma,
      latest_data.mid_gamma>>

C24_BandRoundTrip ==
    obs.bands # <<>>
    => (/\ StoredBands = obs.bands
        /\ latest_data.alpha = (obs.bands[3] + obs.bands[4]) \div 2
        /\ 2 * latest_data.alpha \in {obs.bands[3] + obs.bands[4],
                                      obs.bands[3] + obs.bands[4] - 1})

\* The largest value round-tripped, with low_alpha + high_alpha odd
C24_Witness ==
    /\ obs.bands # <<>> /\ StoredBands = obs.bands
    /\ obs.bands[3] = 16777215 /\ obs.bands[4] = 0 /\ obs.bands[8] = 16777215
    /\ latest_data.alpha = 8388607

(***************************************************************************)
(* C28: a pass of the loop with acceptable signal quality leaves the       *)
(* mapper in the state that map_alpha_to_coordinates gives for the sample  *)
(* of that pass, whether the command interval lets the command out or      *)
(* not.                                                                    *)
(***************************************************************************)
C28_Step ==
    (pcMain = "tick" /\ pcMain' = "sleep" /\ ~signal_is_poor(latest_data.signal_quality))
    => mapper' = map_alpha_to_coordinates(control_mode, mapper, latest_data.alpha,
                                          latest_data.attention,
                                          latest_data.meditation).mapper

C28_SmoothingContinues == [][C28_Step]_vars

\* The second pass was held back by the command interval and moved the
\* smoothed attention from 15 to 25.5
C28_Witness ==
    /\ obs.ticks = 2 /\ pcMain = "sleep"
    /\ obs.cmdLast # NoRecord /\ ~obs.cmdLast.sent /\ ~obs.cmdLast.raised
    /\ obs.cmdLast.elapsed < COMMAND_INTERVAL
    /\ mapper.attention_smoothed = <<51, 2>>

(***************************************************************************)
(* C29: a thread in stop() first clears the running flag, then calls       *)
(* drone.land(), then drone.disconnect(), then eeg.disconnect(), each for  *)
(* an object that exists; it never goes back, it skips none of them, and   *)
(* a land() that raises is followed by the two disconnects all the same.   *)
(* "land" is transmitted only by the landing step, "emergency" only by the *)
(* disconnect step.                                                        *)
(***************************************************************************)
\* How far a thread is in stop(): 1 landing, 2 drone.disconnect(),
\* 3 eeg.disconnect(), 4 at the end
C29_Rank(pc) ==
    IF pc = "idle" THEN 0
    ELSE IF pc \in {"land_send", "land_wait"} THEN 1
    ELSE IF pc \in {"disconnect", "join"} THEN 2
    ELSE IF pc \in {"eeg", "eeg_close"} THEN 3
    ELSE 4

\* The step that follows step number k of stop()
C29_NextRank(k) ==
    IF k = 0 THEN (IF drone # NoneVal THEN 1 ELSE IF eeg # NoneVal THEN 3 ELSE 4)
    ELSE IF k = 1 THEN 2
    ELSE IF k = 2 THEN (IF eeg # NoneVal THEN 3 ELSE 4)
    ELSE IF k = 3 THEN 4
    ELSE 0

C29_Step ==
    /\ \A t \in Threads :
          LET k == C29_Rank(stopPc[t])
              k2 == C29_Rank(stopPc'[t])
          IN  /\ k2 \in {k, C29_NextRank(k)}
              /\ (k = 0 /\ k2 # 0) => ~is_running'
    /\ (obs'.landSent /\ ~obs.landSent)
       => \E t \in Threads : stopPc[t] = "land_send" /\ stopPc'[t] = "land_wait"
    /\ (obs'.landRaised # obs.landRaised)
       => \E t \in Threads : stopPc[t] = "land_send" /\ stopPc'[t] = "disconnect"
    /\ (sock = "open" /\ sock' = "closed")
       => \E t \in Threads : stopPc[t] = "disconnect" /\ stopPc'[t] = "join"
    /\ (serial_open /\ ~serial_open')
       => \E t \in Threads : stopPc[t] = "eeg_close" /\ stopPc'[t] = "done"

C29_StopOrder == [][C29_Step]_vars

\* A stop() whose land() raised has closed the link and the sensor channel
C29_Witness ==
    /\ obs.landRaised /\ obs.landSent /\ obs.disconnects = 2
    /\ stopPc["ext"] = "done" /\ stopPc["main"] = "idle" /\ pcMain = "returned"
    /\ eeg # NoneVal /\ drone # NoneVal /\ ~serial_open /\ sock = "closed"

(***************************************************************************)
(* C31: for every call of the blink policy, whatever the number of         *)
(* readings already retained, the newest alpha reading is classified       *)
(* 'blink' above 300000, 'low' below 100000 and 'normal' otherwise, the    *)
(* class maps to the scalar +1.0, -1.0 and -0.2, and the history never     *)
(* holds more than the last 10 readings.                                   *)
(***************************************************************************)
C31_Class(alpha_power) ==
    IF alpha_power > blink_threshold THEN "blink"
    ELSE IF alpha_power < normal_alpha_lo THEN "low"
    ELSE "normal"

C31_Scalar(state) ==
    IF state = "blink" THEN <<1, 1>> ELSE IF state = "low" THEN <<-1, 1>> ELSE <<-1, 5>>

C31_BlinkPolicy ==
    /\ Len(mapper.alpha_history) <= HISTORY_LEN
    /\ obs.blink # NoRecord
       => /\ obs.blink.state = C31_Class(obs.blink.alpha_power)
          /\ obs.blink.scalar = C31_Scalar(obs.blink.state)

(***************************************************************************)
(* C32: in control mode 1 with the default ranges, when the newest alpha   *)
(* reading is classified 'normal' the forward/back velocity vy is strictly *)
(* between -100 and 0: a slight backward value, not full reverse.          *)
(***************************************************************************)
C32_NormalIsNearHover ==
    (obs.lastFrom = "map" /\ control_mode = 1 /\ obs.lastBlink = "normal")
    => (-100 < obs.lastVel[2] /\ obs.lastVel[2] < 0)


(***************************************************************************)
(* C33: if the battery query of initialize() yields a value below          *)
(* MIN_BATTERY_LEVEL, the 0 substituted for a missing or non-numeric reply *)
(* included, initialize() fails and neither 'takeoff' nor any 'rc' command *)
(* is transmitted in that run.                                             *)
(***************************************************************************)
C33_LowBatteryGrounded ==
    (obs.battery # -1 /\ obs.battery < MIN_BATTERY_LEVEL)
    => (/\ pcMain = "returned" /\ ~is_running
        /\ ~obs.takeoffSent /\ obs.rcCount = 0)

\* The query timed out: get_battery() returned 0 and start() has returned
C33_Witness ==
    /\ obs.battery = 0 /\ obs.batteryReply = NoneVal
    /\ pcMain = "returned" /\ obs.hsSent > 0

(***************************************************************************)
(* C34: decoding one payload entry writes only the fields of the sample    *)
(* store that belong to that entry: a signal-quality, attention,           *)
(* meditation or raw-wave entry leaves every other field unchanged, a      *)
(* band-power entry changes only the eight band fields and the combined    *)
(* alpha, and extension markers and skipped unknown codes change no field. *)
(***************************************************************************)
C34_BandFields ==
    {"delta", "theta", "low_alpha", "high_alpha", "alpha", "low_beta", "high_beta",
     "low_gamma", "mid_gamma"}

\* The fields that belong to the entry with the given code
C34_FieldsOf(code) ==
    IF code = CODE_POOR_SIGNAL THEN {"signal_quality"}
    ELSE IF code = CODE_ATTENTION THEN {"attention"}
    ELSE IF code = CODE_MEDITATION THEN {"meditation"}
    ELSE IF code = CODE_RAW_VALUE THEN {"raw_value"}
    ELSE IF code = CODE_ASIC_EEG_POWER THEN C34_BandFields
    ELSE {}

\* The code of the entry that starts at index i, behind its extension markers
C34_CodeAt(payload, i) ==
    IF skip_excode(payload, i) > Len(payload) THEN -1
    ELSE payload[skip_excode(payload, i)]

C34_Step ==
    /\ DOMAIN latest_data' = DOMAIN latest_data
    /\ \A f \in DOMAIN latest_data :
          latest_data'[f] # latest_data[f]
          => /\ decPc = "parse"
             /\ f \in C34_FieldsOf(C34_CodeAt(pkt, pidx))

C34_EntryWritesOwnFields == [][C34_Step]_vars

\* After three frames the store holds fields of three kinds of entry: the
\* unknown codes and the markers have been passed, and each entry has left
\* the fields of the others as they were
C34_Witness ==
    /\ obs.frames = 3 /\ buf = <<>> /\ decPc = "read"
    /\ latest_data.signal_quality = 25 /\ latest_data.attention = 60
    /\ latest_data.meditation = 40 /\ latest_data.mid_gamma = 16777215
    /\ latest_data.raw_value = 0

(***************************************************************************)
(* C35: in every snapshot returned by read_data(), under any interleaving  *)
(* of the read thread with readers, the eight band-power values all come   *)
(* from the same band-power entry and alpha is floor((low_alpha +          *)
(* high_alpha) / 2): no reader sees a partially written block.             *)
(***************************************************************************)
C35_BandsOf(d) ==
    <<d.delta, d.theta, d.low_alpha, d.high_alpha, d.low_beta, d.high_beta,
      d.low_gamma, d.mid_gamma>>

C35_Whole(d) ==
    /\ C35_BandsOf(d) \in SnapshotVectors \cup {<<0, 0, 0, 0, 0, 0, 0, 0>>}
    /\ d.alpha = (d.low_alpha + d.high_alpha) \div 2

C35_SnapshotWhole == held.eeg # NoRecord => C35_Whole(held.eeg.value)

\* A caller holds a whole snapshot of one block while the read thread is in
\* the middle of storing another one, the store being a mix of the two
C35_Witness ==
    /\ held.eeg # NoRecord /\ held.eeg.value.delta = 1
    /\ decPc = "low_beta" /\ data_lock = "read_thread"
    /\ latest_data.delta = 11 /\ latest_data.mid_gamma = 8
    /\ ~C35_Whole(latest_data)

(***************************************************************************)
(* C36: whenever connect() returns failure the connection flag of the link *)
(* is false afterwards, also when connect() was called on a link that was  *)
(* already connected and the new handshake fails.                          *)
(***************************************************************************)
C36_FailureClearsFlag == obs.connectRet = "False" => ~is_connected

(***************************************************************************)
(* C37: at most one response listener runs for an actuator link at any     *)
(* time: the listener of an earlier connect() has ended before a later     *)
(* connect() starts a new one, and after a failed connect() no listener is *)
(* left running.                                                           *)
(***************************************************************************)
C37_SingleListener ==
    /\ listeners <= 1
    /\ obs.connectRet = "False" => listeners = 0

(***************************************************************************)
(* C38: a complete valid frame that follows one additional 0xAA byte in    *)
(* the stream (three 0xAA before the length byte) is still decoded and its *)
(* fields stored: once the stream is consumed the store holds what all the *)
(* frames sent decode to.                                                  *)
(***************************************************************************)
C38_ExtraSyncTolerated ==
    (decPc = "read" /\ buf = <<>> /\ pkt = <<>> /\ obs.extraSyncs > 0)
    => latest_data = ParseAll(obs.valid, latest_data_init)

(***************************************************************************)
(* C39: the poor-signal gate of the control loop agrees with               *)
(* is_signal_good() for every signal quality: an 'rc' command is           *)
(* dispatched on a tick only if is_signal_good() classifies the signal     *)
(* quality of that tick as good, in particular at the threshold 50.        *)
(***************************************************************************)
C39_Step == obs'.rcCount # obs.rcCount => is_signal_good(latest_data)

C39_GateAgreesWithClassifier == [][C39_Step]_vars

(***************************************************************************)
(* C40: during a run of consecutive poor-signal ticks the poor-signal      *)
(* warning is logged periodically, once per fixed number of ticks, and not *)
(* on every tick of the run: a poor tick that follows a poor tick with a   *)
(* warning logs none.                                                      *)
(***************************************************************************)
C40_Step ==
    (/\ pcMain = "tick" /\ pcMain' # "tick"
     /\ obs.tickLast # NoRecord /\ obs'.tickLast # obs.tickLast
     /\ signal_is_poor(obs.tickLast.sq) /\ obs.tickLast.warned
     /\ signal_is_poor(obs'.tickLast.sq))
    => ~obs'.tickLast.warned

C40_WarningNotEveryTick == [][C40_Step]_vars

=============================================================================
